---- MODULE Spec2Model ----
(***************************************************************************)
(* A model of the volumetric gain engine of voxblox_ros' TsdfServer        *)
(* (src/voxblox_ros/src/tsdf_server.cc): pointcloud ingestion with         *)
(* interestingness seeding, spreadInterestingness, getScanStatus,          *)
(* computeVolumetricGainRayModelNoBound, calcInfoGainCallback,             *)
(* baselineInfoGainCallback and clear.                                     *)
(*                                                                         *)
(* Units.  The voxel grid is a GridX x GridY slice of the layer; a global  *)
(* index is a pair <<x, y>>.  Distances and weights are integers in units  *)
(* of 1e-6 (so the code's epsilon 1e-6 is 1).  Interestingness and point   *)
(* intensity are integers in units of 1/16 (1.0 is 16).  A gain is an      *)
(* integer in units of 1/(16 * 2^DecayBits).  Positions are voxel centres  *)
(* and squared distances are in voxel units; area_factor_ is the exponent  *)
(* a with exp(-area_factor_ * z2) = 2^(-a * z2).                           *)
(***************************************************************************)
EXTENDS Integers, Sequences, FiniteSets, TLC

\* ---------------------------------------------------------------- bounds
GridX == 3
GridY == 2
MaxRange == 2
MaxWidth == 2
MaxPoints == 1
MaxPoses == 2
MaxDecayDistance == 2
MaxStamp == 1
MaxPending == 0
MaxCalls == 2
MaxFrontier == 1
MaxSeeds == 2
MaxTrailing == 1
MaxFov == 3
MaxResolution == 2
MaxCarved == 1
MaxDrawn == 2
MaxSubscribers == 3
MaxThrottleStamp == 4
MaxQueued == 2
MaxAccepted == 3
MaxVelX == 2
MaxVelZ == 3
MaxYaw == 4
MaxArrivals == 12
MaxRemovalStamp == 2
NumYaw == 2
NumVelZ == 1
DecayBits == 8

\* ------------------------------------------------------ program constants
kWeightEpsilon == 1        \* 1e-6 in checkUnknownStatus
kDistanceEpsilon == 1      \* 1e-6 in distance_thres
kPassFilterMax == 16       \* setFilterLimits(0.5, 1.0): upper limit 1.0
kPassFilterMin == kPassFilterMax \div 2
kMaxQueueSize == 10
kStateSize == 6
kDefaultResolution == 1
kNumTimestep == 15
kNumVelX_ == 1

\* ------------------------------------------------------------- geometry
Grid == (0 .. GridX - 1) \X (0 .. GridY - 1)

Abs(a) == IF a < 0 THEN -a ELSE a
Max(a, b) == IF a < b THEN b ELSE a
Pow2(n) == 2 ^ n

Add(a, b) == <<a[1] + b[1], a[2] + b[2]>>

\* Rotation about the z axis by yaw quarter turns.
Rot(yaw, v) ==
    CASE yaw % 4 = 0 -> v
      [] yaw % 4 = 1 -> <<-v[2], v[1]>>
      [] yaw % 4 = 2 -> <<-v[1], -v[2]>>
      [] yaw % 4 = 3 -> <<v[2], -v[1]>>

\* Division rounding to nearest, symmetric about zero.
RoundDiv(a, n) == IF a < 0 THEN -((2 * (-a) + n) \div (2 * n))
                  ELSE (2 * a + n) \div (2 * n)

SqDist(a, b) == (a[1] - b[1]) * (a[1] - b[1]) + (a[2] - b[2]) * (a[2] - b[2])

\* The Map's raycast: the finite, ordered, near-to-far sequence of global
\* indices between two points, the start voxel first.
Raycast(from, to) ==
    LET dx == to[1] - from[1]
        dy == to[2] - from[2]
        n  == Max(Abs(dx), Abs(dy))
    IN  IF n = 0 THEN <<from>>
        ELSE [t \in 1 .. n + 1 |->
                Add(from, <<RoundDiv(dx * (t - 1), n), RoundDiv(dy * (t - 1), n)>>)]

\* Neighborhood<>::getFromGlobalIndex: the fixed-arity neighbour list.
kNeighborOffsets == << <<-1, 0>>, <<1, 0>>, <<0, -1>>, <<0, 1>> >>
Neighbors(i) == [n \in 1 .. Len(kNeighborOffsets) |-> Add(i, kNeighborOffsets[n])]

\* --------------------------------------------------------------- voxels
kSentinelDistance == 1000   \* initial interesting_distance of a voxel
VoxelSize == 4              \* sdf_layer_->voxel_size()
kTruncationDistance == 2 * VoxelSize
kObservationWeight == 1000000

\* A voxel that is not allocated (getVoxelPtrByGlobalIndex gives nullptr).
NoVoxel == [exists |-> FALSE, distance |-> 0, weight |-> 0, interestingness |-> 0,
            interesting_distance |-> kSentinelDistance,
            in_queue |-> FALSE, is_observed |-> FALSE]

\* A freshly allocated voxel.
NewVoxel == [NoVoxel EXCEPT !.exists = TRUE]

EmptyLayer == [i \in Grid |-> NoVoxel]

\* sdf_layer_->getVoxelPtrByGlobalIndex(i) # nullptr
HasVoxel(layer, i) == i \in Grid /\ layer[i].exists

VoxelAt(layer, i) == IF HasVoxel(layer, i) THEN layer[i] ELSE NoVoxel

VARIABLES
    tsdf,                    \* the TSDF layer: Grid -> voxel
    interesting_voxels,      \* queue of global indices (diffusion frontier)
    observed_voxels,         \* queue of global indices flagged by the scan
    pointcloud_queue_,       \* pending pointcloud messages
    last_msg_time_ptcloud_,  \* stamp of the last accepted message
    min_time_between_msgs_,  \* the min_time_between_msgs_sec parameter
    accepted,                \* history: stamps of the accepted messages
    processed,               \* history: stamps of the messages integrated, in order
    use_freespace_pointcloud_,         \* the use_freespace_pointcloud parameter
    max_block_distance_from_body_,     \* the max_block_distance_from_body parameter
    freespace_pointcloud_queue_,       \* pending freespace pointcloud messages
    last_msg_time_freespace_ptcloud_,  \* stamp of the last accepted freespace message
    camera_param,            \* the SensorParamsBase member
    frustum_endpoints_B,     \* camera_param's ray endpoints, body frame, in the slice
    decay_distance_,
    decay_lambda_,           \* numerator over 2: 1 is 0.5, 2 is 1.0
    area_factor_,
    camera_states_,          \* the trajectory library: row, timestep -> state
    action_sequences_,       \* the trajectory library: row, timestep -> action
    camera_states_rotated_,  \* the trajectory library's working copy
    vgain,                   \* the VolumetricGain member
    pc,                      \* position of the running callback
    call,                    \* the running callback's request, locals, response
    scan,                    \* getScanStatus' locals
    pushed,                  \* history: pushes of each index since the last clear()
    entry,                   \* history: the layer when the running callback began
    prev,                    \* history: the last completed calcInfoGainCallback
    ncalls,                  \* history: service calls started so far
    publish_tsdf_map_,       \* the publish_tsdf_map parameter
    tsdf_map_pub_,           \* the map topic: subscribers, last message sent
    num_subscribers_tsdf_map_

vars == <<tsdf, interesting_voxels, observed_voxels, pointcloud_queue_,
          last_msg_time_ptcloud_, min_time_between_msgs_, accepted, processed,
          use_freespace_pointcloud_, max_block_distance_from_body_,
          freespace_pointcloud_queue_, last_msg_time_freespace_ptcloud_,
          camera_param, frustum_endpoints_B, decay_distance_,
          decay_lambda_, area_factor_, camera_states_, action_sequences_,
          camera_states_rotated_, vgain, pc, call, scan, pushed, entry, prev,
          ncalls, publish_tsdf_map_, tsdf_map_pub_, num_subscribers_tsdf_map_>>

config == <<camera_param, frustum_endpoints_B, decay_distance_, decay_lambda_,
           area_factor_, min_time_between_msgs_, use_freespace_pointcloud_,
           max_block_distance_from_body_>>
freespace == <<freespace_pointcloud_queue_, last_msg_time_freespace_ptcloud_>>
ingest == <<pointcloud_queue_, last_msg_time_ptcloud_, accepted, processed, freespace>>
library == <<camera_states_, action_sequences_>>
publisher == <<publish_tsdf_map_, tsdf_map_pub_, num_subscribers_tsdf_map_>>

\* No message has been published on the map topic.
NoMsg == [published |-> FALSE]

\* publish_tsdf_map is false by default and nobody listens to the map topic:
\* publishMap returns at once, and clear() does not call it.
MapPublishingOff ==
    /\ publish_tsdf_map_ = FALSE
    /\ tsdf_map_pub_ = [subscribers |-> {}, joined |-> {}, sent |-> NoMsg]
    /\ num_subscribers_tsdf_map_ = 0

\* std::numeric_limits<FloatingPoint>::max(), the default of
\* max_block_distance_from_body_: no block is farther.
kMaxFloat == 10000

\* use_freespace_pointcloud is false by default: nothing subscribes to the
\* freespace topic, and no block is ever too far from the body.
FreespaceOff ==
    /\ use_freespace_pointcloud_ = FALSE
    /\ max_block_distance_from_body_ = kMaxFloat
    /\ freespace_pointcloud_queue_ = <<>>
    /\ last_msg_time_freespace_ptcloud_ = 0

\* ------------------------------------------------------- classification
\* TsdfServer::checkUnknownStatus
checkUnknownStatus(voxel) == ~voxel.exists \/ voxel.weight < kWeightEpsilon

distance_thres == VoxelSize + kDistanceEpsilon

\* Occupied only for a distance within the threshold of zero on either side.
ClassifyWithin(voxel) ==
    IF checkUnknownStatus(voxel) THEN "Unknown"
    ELSE IF voxel.distance > distance_thres \/ voxel.distance < -distance_thres THEN "Free"
    ELSE "Occupied"

\* The three-way branch of getScanStatus.
Classify(voxel) ==
    IF checkUnknownStatus(voxel) THEN "Unknown"
    ELSE IF voxel.distance > distance_thres THEN "Free"
    ELSE "Occupied"

\* exp(-area_factor_ * z2), scaled by 2^DecayBits; underflows to 0.
Decay(z2) == IF area_factor_ * z2 > DecayBits THEN 0
             ELSE Pow2(DecayBits - area_factor_ * z2)

\* ------------------------------------------------------------ ingestion
Intensities == {0, kPassFilterMax}
Points == [p : Grid, intensity : Intensities]
Clouds == UNION {[1 .. n -> Points] : n \in 0 .. MaxPoints}

\* Voxels are allocated a block at a time; a block is a row of the slice.
SameBlock(a, b) == a[2] = b[2]

\* TsdfIntegratorBase::updateTsdfVoxel: weighted average of the distance and
\* of the interestingness (the latter only where the point itself lies).
UpdateTsdfVoxel(voxel, sdf, hit, intensity) ==
    LET w == kObservationWeight
        W == voxel.weight + w
    IN  [voxel EXCEPT
           !.distance = (voxel.distance * voxel.weight + sdf * w) \div W,
           !.interestingness =
               IF hit THEN (voxel.interestingness * voxel.weight + intensity * w) \div W
               ELSE voxel.interestingness,
           !.weight = W]

\* One point of integratePointCloudWithInterestingness: the ray from the
\* sensor origin to the point is carved free, the point's voxel is a surface.
IntegratePoint(layer, T_G_C, pt) ==
    LET target == Add(T_G_C, pt.p)
        ray    == Raycast(T_G_C, target)
        cells  == {ray[k] : k \in 1 .. Len(ray)} \cap Grid
        alloc(i) == IF layer[i].exists THEN layer[i] ELSE NewVoxel
    IN  [i \in Grid |->
           IF i = target THEN UpdateTsdfVoxel(alloc(i), 0, TRUE, pt.intensity)
           ELSE IF i \in cells THEN UpdateTsdfVoxel(alloc(i), kTruncationDistance, FALSE, 0)
           ELSE IF \E c \in cells : SameBlock(i, c) THEN alloc(i)
           ELSE layer[i]]

RECURSIVE integratePointcloud(_, _, _)
integratePointcloud(layer, T_G_C, cloud) ==
    IF cloud = <<>> THEN layer
    ELSE integratePointcloud(IntegratePoint(layer, T_G_C, Head(cloud)), T_G_C, Tail(cloud))

\* pcl::PassThrough on "intensity" with limits (0.5, 1.0).
PassFilter(cloud) ==
    SelectSeq(cloud, LAMBDA pt : kPassFilterMin <= pt.intensity /\ pt.intensity <= kPassFilterMax)

\* pcl::VoxelGrid: one point is kept per occupied leaf.
RECURSIVE VoxelFilter(_)
VoxelFilter(cloud) ==
    IF cloud = <<>> THEN <<>>
    ELSE LET rest == VoxelFilter(Tail(cloud))
         IN  <<Head(cloud)>> \o SelectSeq(rest, LAMBDA pt : pt.p # Head(cloud).p)

\* The history of pushes counts to two.
CountPush(n) == IF n < 2 THEN n + 1 ELSE n

\* A seeding that does not test in_queue.
SeedEligibleAnyFlag(voxel) == voxel.exists /\ voxel.interestingness > 0

\* The condition under which a filtered point's voxel is seeded.
SeedEligible(voxel) == voxel.exists /\ voxel.interestingness > 0 /\ ~voxel.in_queue

\* The seeding loop over the filtered points; st = [layer, queue, pushed].
RECURSIVE SeedVoxels(_, _, _)
SeedVoxels(st, T_G_C, pts) ==
    IF pts = <<>> THEN st
    ELSE LET global_index == Add(T_G_C, Head(pts).p)
             voxel == VoxelAt(st.layer, global_index)
             next ==
               IF SeedEligible(voxel)
               THEN [layer |-> [st.layer EXCEPT ![global_index] =
                                  [voxel EXCEPT !.interesting_distance = 0,
                                                !.in_queue = TRUE]],
                     queue |-> Append(st.queue, global_index),
                     pushed |-> [st.pushed EXCEPT ![global_index] = CountPush(@)]]
               ELSE st
         IN  SeedVoxels(next, T_G_C, Tail(pts))

\* processPointCloudMessageAndInsertWithInterestingness and
\* lightProcessPointCloudMessageAndInsert: integrate, filter, seed.
ProcessPointCloud(st, T_G_C, cloud) ==
    SeedVoxels([st EXCEPT !.layer = integratePointcloud(st.layer, T_G_C, cloud)],
               T_G_C, VoxelFilter(PassFilter(cloud)))

\* ------------------------------------------------------------ diffusion
\* A push that does not test the distance.
EnqueueGateNoCutoff(voxel) == ~voxel.in_queue

\* A push that does not test in_queue.
EnqueueGateNoFlag(voxel) == voxel.interesting_distance < decay_distance_

\* The gate of the push in spreadInterestingness.
EnqueueGate(voxel) == ~voxel.in_queue /\ voxel.interesting_distance < decay_distance_

\* A diffusion that reaches every allocated neighbour.
SpreadsToAny(neighbor_voxel) == TRUE

\* The neighbours the diffusion may update and push: the Unknown ones.
SpreadsTo(neighbor_voxel) == checkUnknownStatus(neighbor_voxel)

\* An update that overwrites whatever the neighbour holds.
NeedsUpdateAlways(neighbor_voxel, parent_voxel) == TRUE

\* The test of the update: the parent offers a shorter distance.
NeedsUpdate(neighbor_voxel, parent_voxel) ==
    neighbor_voxel.interesting_distance > parent_voxel.interesting_distance + 1

\* A decay that divides by decay_lambda_.
DecayedInverse(interestingness) == (2 * interestingness) \div decay_lambda_

\* decay_lambda_ * parent_voxel->interestingness
Decayed(interestingness) == (decay_lambda_ * interestingness) \div 2

\* The body of the neighbour loop for one neighbour; st = [layer, queue, pushed].
SpreadNeighbor(st, parent_index, neighbor_index) ==
    IF ~HasVoxel(st.layer, neighbor_index) THEN st
    ELSE LET parent_voxel == st.layer[parent_index]
             neighbor_voxel == st.layer[neighbor_index]
         IN  IF ~SpreadsTo(neighbor_voxel) THEN st
             ELSE LET updated ==
                        IF NeedsUpdate(neighbor_voxel, parent_voxel)
                        THEN [neighbor_voxel EXCEPT
                                !.interesting_distance =
                                    parent_voxel.interesting_distance + 1,
                                !.interestingness =
                                    Decayed(parent_voxel.interestingness)]
                        ELSE neighbor_voxel
                  IN  IF EnqueueGate(updated)
                      THEN [layer |-> [st.layer EXCEPT ![neighbor_index] =
                                         [updated EXCEPT !.in_queue = TRUE]],
                            queue |-> Append(st.queue, neighbor_index),
                            pushed |-> [st.pushed EXCEPT ![neighbor_index] = CountPush(@)]]
                      ELSE [st EXCEPT !.layer[neighbor_index] = updated]

RECURSIVE SpreadNeighbors(_, _, _)
SpreadNeighbors(st, parent_index, neighbor_indices) ==
    IF neighbor_indices = <<>> THEN st
    ELSE SpreadNeighbors(SpreadNeighbor(st, parent_index, Head(neighbor_indices)),
                         parent_index, Tail(neighbor_indices))

\* An iteration that leaves the front of the queue in place.
SpreadIterationNoPop(st) ==
    SpreadNeighbors(st, Head(st.queue), Neighbors(Head(st.queue)))

\* One iteration of the while loop of spreadInterestingness.
SpreadIteration(st) ==
    LET global_index_tmp == Head(st.queue)
    IN  SpreadNeighbors([st EXCEPT !.queue = Tail(st.queue)],
                        global_index_tmp, Neighbors(global_index_tmp))

\* ----------------------------------------------------------------- scan
\* SensorParamsBase::getFrustumEndpoints: rotate by the yaw, translate.
getFrustumEndpoints(state) ==
    [r \in 1 .. Len(frustum_endpoints_B) |->
        Add(state.pos, Rot(state.yaw, frustum_endpoints_B[r]))]

\* The voxel sequence of ray r of the scan in progress.
ScanRay(r) == Raycast(scan.pos, scan.multiray_endpoints[r])

\* An Occupied branch without its break.
RayNeverStops(class) == FALSE

\* Whether the ray stops after a voxel of this class.
RayStops(class) == class = "Occupied"

\* A count that does not test is_observed.
CountsAlways(voxel) == voxel.exists

\* Whether a traversed voxel is flagged and counted.
Counts(voxel) == voxel.exists /\ ~voxel.is_observed

\* A contribution without the distance decay.
GainOfUndecayed(voxel, class, global_index, pos) ==
    IF class = "Free" THEN 0
    ELSE voxel.interestingness * Decay(0)

\* A gain that takes the interestingness of Free voxels too.
GainOfAnyClass(voxel, class, global_index, pos) ==
    voxel.interestingness * Decay(SqDist(global_index, pos))

\* The contribution of a newly flagged voxel to the gain.
GainOf(voxel, class, global_index, pos) ==
    IF class = "Free" THEN 0
    ELSE voxel.interestingness * Decay(SqDist(global_index, pos))

\* A flagging that uses up the voxel's interestingness.
MarkObservedConsumes(voxel) ==
    [voxel EXCEPT !.is_observed = TRUE, !.interestingness = 0]

\* The flagging of a newly counted voxel.
MarkObserved(voxel) == [voxel EXCEPT !.is_observed = TRUE]

\* A reset loop that pops without clearing the flag.
ResetKeepsFlag(voxel) == voxel

\* A reset that clears the interestingness with the flag.
ResetObservedWipes(voxel) ==
    [voxel EXCEPT !.is_observed = FALSE, !.interestingness = 0]

\* The reset of one observed voxel between poses.
ResetObserved(voxel) == [voxel EXCEPT !.is_observed = FALSE]

\* --------------------------------------------------- trajectory library
NumSequences == NumYaw * NumVelZ * kNumVelX_
Rows == 0 .. NumSequences - 1
Timesteps == 0 .. kNumTimestep - 1

\* A loop that scores every timestep.
EveryTimestep == 0 .. kNumTimestep - 1

\* The timesteps baselineInfoGainCallback scores.
ScoredTimesteps == {2, 6, 10, 14}

Sign(a) == IF a < 0 THEN -1 ELSE IF a > 0 THEN 1 ELSE 0

\* The actions the constructor writes for row idx_seq at timestep j: the
\* forward velocity, and a steering angle that the row's yaw index makes left,
\* straight or right.
ActionLibrary ==
    [idx_seq \in Rows |->
       [j \in Timesteps |->
          LET idx3 == idx_seq % NumYaw
          IN  [vel |-> 1, steer |-> Sign(2 * idx3 - (NumYaw - 1))]]]

\* The constructor's forward simulation of row idx_seq at timestep j under
\* those actions: the position advances one voxel every four timesteps, and
\* the yaw stays within the first quarter turn.
ForwardDynamics ==
    [idx_seq \in Rows |->
       [j \in Timesteps |->
          LET action == ActionLibrary[idx_seq][j]
              s      == (action.vel * (j + 1)) \div 4
          IN  [pos |-> <<s, action.steer * s>>, roll |-> 0, pitch |-> 0, yaw |-> 0]]]

ZeroStates == [idx_seq \in Rows |-> [j \in Timesteps |-> <<0, 0>>]]

\* The member initialisers: MatrixXd::Zero.
ZeroState == [pos |-> <<0, 0>>, roll |-> 0, pitch |-> 0, yaw |-> 0]
ZeroAction == [vel |-> 0, steer |-> 0]
ZeroLibrary == [idx_seq \in Rows |-> [j \in Timesteps |-> ZeroState]]
ZeroActions == [idx_seq \in Rows |-> [j \in Timesteps |-> ZeroAction]]

\* ---------------------------------------------------------------- inputs
\* Candidate viewpoints: on the column x = 0, facing any quarter turn.
Yaws == 0 .. 3
PoseOrigins == {i \in Grid : i[1] = 0}
Poses == [pos : PoseOrigins, yaw : Yaws]
PoseLists == UNION {[1 .. n -> Poses] : n \in 0 .. MaxPoses}

\* request.camera_poses: a flat array, six values per pose (x, y, z, roll,
\* pitch, yaw; z, roll and pitch are 0 in the slice), followed by up to
\* MaxTrailing values that do not complete a pose.
RECURSIVE Flatten(_)
Flatten(poses) ==
    IF poses = <<>> THEN <<>>
    ELSE LET pose == Head(poses)
         IN  <<pose.pos[1], pose.pos[2], 0, 0, 0, pose.yaw>> \o Flatten(Tail(poses))
Trailings == UNION {[1 .. n -> {1}] : n \in 0 .. MaxTrailing}
Requests == {Flatten(poses) \o trailing : poses \in PoseLists, trailing \in Trailings}
Transforms == {<<0, 0>>}
Stamps == 0 .. MaxStamp
Messages == [stamp : Stamps, cloud : Clouds]

\* ------------------------------------------- SensorParamsBase::initialize
\* Angles are integers and the loop variables are kept doubled (d2 = 2 * d), so
\* that fov / 2 is exact.  Tan is the tangent of the doubled angle in steps of
\* one voxel per unit of range, snapped to the voxel grid.
Tan(d2) == (d2 + 1) \div 2

\* A loop that also visits its upper limit.
InFovClosed(d2, lim2) == d2 <= lim2

\* The loop condition dv < v_lim_2, dh < h_lim_2.
InFov(d2, lim2) == d2 < lim2

\* The angles one stepping loop visits: for (d = -lim; d < lim; d += res).
RECURSIVE Sweep(_, _, _)
Sweep(d2, lim2, res) ==
    IF InFov(d2, lim2) THEN <<d2>> \o Sweep(d2 + 2 * res, lim2, res) ELSE <<>>

\* The endpoints one pass of the inner loop pushes, for the row at dv2.
Row(dv2, columns, max_range) ==
    [c \in 1 .. Len(columns) |->
        <<max_range, max_range * Tan(columns[c]), max_range * Tan(dv2)>>]

\* The endpoints the two loops push, row after row.
RECURSIVE PushedEndpoints(_, _, _)
PushedEndpoints(rows, columns, max_range) ==
    IF rows = <<>> THEN <<>>
    ELSE Row(Head(rows), columns, max_range) \o PushedEndpoints(Tail(rows), columns, max_range)

\* SensorParamsBase::initialize: fov and resolution are [horizontal, vertical].
Initialize(param) ==
    LET v_res == IF param.resolution[2] > 0 THEN param.resolution[2]
                 ELSE kDefaultResolution
        h_res == IF param.resolution[1] > 0 THEN param.resolution[1]
                 ELSE kDefaultResolution
        rows    == Sweep(-param.fov[2], param.fov[2], v_res)
        columns == Sweep(-param.fov[1], param.fov[1], h_res)
    IN  [param EXCEPT
           !.height = Len(rows),
           !.width = IF rows = <<>> THEN 0 ELSE Len(columns),
           !.frustum_endpoints = PushedEndpoints(rows, columns, param.max_range)]

\* camera_param before initialize().
SensorParams(fov, resolution) ==
    [max_range |-> MaxRange, fov |-> fov, resolution |-> resolution,
     height |-> 0, width |-> 0, frustum_endpoints |-> <<>>]

\* The part of the endpoints that lies in the slice, as planar points.
RECURSIVE Slice(_)
Slice(endpoints) ==
    IF endpoints = <<>> THEN <<>>
    ELSE LET ep == Head(endpoints)
         IN  (IF ep[3] = 0 THEN <<(<<ep[1], ep[2]>>)>> ELSE <<>>) \o Slice(Tail(endpoints))

\* The constructor's camera_param for a frustum that is width rays wide and
\* one ray high.
CameraParam(width) == Initialize(SensorParams(<<width, 1>>, <<1, 1>>))
InitializeFrustum(width) == Slice(CameraParam(width).frustum_endpoints)

ZeroGain == [gain |-> 0, num_unknown_voxels |-> 0, num_free_voxels |-> 0,
             num_occupied_voxels |-> 0]
NoCall == [kind |-> "none"]
NoScan == [active |-> FALSE]
NoPrev == [valid |-> FALSE]
ZeroPushed == [i \in Grid |-> 0]

Init ==
    /\ tsdf = EmptyLayer
    /\ interesting_voxels = <<>>
    /\ observed_voxels = <<>>
    /\ pointcloud_queue_ = <<>>
    /\ last_msg_time_ptcloud_ = 0
    /\ min_time_between_msgs_ = 0
    /\ accepted = <<>>
    /\ processed = <<>>
    /\ FreespaceOff
    /\ \E width \in 1 .. MaxWidth :
         /\ camera_param = CameraParam(width)
         /\ frustum_endpoints_B = InitializeFrustum(width)
    /\ decay_distance_ \in {0, MaxDecayDistance}
    /\ decay_lambda_ = 1
    /\ area_factor_ = 1
    /\ camera_states_ = ForwardDynamics
    /\ action_sequences_ = ActionLibrary
    /\ camera_states_rotated_ = ZeroStates
    /\ vgain = ZeroGain
    /\ pc = "idle"
    /\ call = NoCall
    /\ scan = NoScan
    /\ pushed = ZeroPushed
    /\ entry = EmptyLayer
    /\ prev = NoPrev
    /\ ncalls = 0
    /\ MapPublishingOff

\* ------------------------------------------------ pointcloud subscriber
\* Process the first n pending messages, one transform each.
RECURSIVE ProcessMessages(_, _, _)
ProcessMessages(st, msgs, Ts) ==
    IF msgs = <<>> THEN st
    ELSE ProcessMessages(ProcessPointCloud(st, Head(Ts), Head(msgs).cloud),
                         Tail(msgs), Tail(Ts))

\* A drop branch that pops only while the queue is longer than kMaxQueueSize.
DropOldestAboveLimit(queue) ==
    IF Len(queue) > kMaxQueueSize
    THEN SubSeq(queue, Len(queue) - kMaxQueueSize + 1, Len(queue))
    ELSE queue

\* getNextPointcloudFromQueue when the head's transform is unavailable: a
\* queue of kMaxQueueSize or more is popped until it is shorter.
DropOldest(queue) ==
    IF Len(queue) >= kMaxQueueSize
    THEN SubSeq(queue, Len(queue) - kMaxQueueSize + 2, Len(queue))
    ELSE queue

\* A throttle that lets a message through at exactly the minimum spacing.
AcceptsAtLeast(stamp) == stamp - last_msg_time_ptcloud_ >= min_time_between_msgs_

\* The throttle at the head of both pointcloud callbacks.
Accepts(stamp) == stamp - last_msg_time_ptcloud_ > min_time_between_msgs_

\* The body shared by insertPointcloud and insertPointcloudWithInterestingness:
\* the throttle, then the queue is processed as far as transforms are known.
\* At most `pending` messages stay queued.
InsertMessage(messages, pending) ==
    /\ pc = "idle"
    /\ \E msg \in messages :
         LET accept == Accepts(msg.stamp)
             queue  == IF accept THEN Append(pointcloud_queue_, msg)
                       ELSE pointcloud_queue_
         IN  \E n \in 0 .. Len(queue) :
             \E Ts \in [1 .. n -> Transforms] :
               LET st == ProcessMessages(
                            [layer |-> tsdf, queue |-> interesting_voxels,
                             pushed |-> pushed],
                            SubSeq(queue, 1, n), Ts)
                   rest == SubSeq(queue, n + 1, Len(queue))
               IN  /\ Len(rest) <= pending
                   /\ last_msg_time_ptcloud_' =
                        IF accept THEN msg.stamp ELSE last_msg_time_ptcloud_
                   /\ accepted' = IF accept THEN Append(accepted, msg.stamp) ELSE accepted
                   /\ processed' = processed \o [k \in 1 .. n |-> queue[k].stamp]
                   /\ pointcloud_queue_' = DropOldest(rest)
                   /\ tsdf' = st.layer
                   /\ interesting_voxels' = st.queue
                   /\ pushed' = st.pushed
    /\ prev' = NoPrev
    /\ UNCHANGED <<observed_voxels, freespace, config, publisher, library,
                   camera_states_rotated_, vgain, pc, call, scan, entry, ncalls>>

\* TsdfServer::insertPointcloudWithInterestingness
InsertPointcloudWithInterestingness == InsertMessage(Messages, MaxPending)

\* ---------------------------------------------------------------- clear
\* A clear() that keeps the interesting_voxels queue.
KeptQueue(queue) == queue

\* clear(): a fresh interesting_voxels queue.
ClearedQueue(queue) == <<>>

\* A clear() that keeps the blocks.
KeptLayer(layer) == layer

\* clear(): removeAllBlocks().
ClearedLayer(layer) == EmptyLayer

\* TsdfServer::clearMapCallback, which is clear()
ClearMapCallback ==
    /\ pc = "idle"
    /\ interesting_voxels' = ClearedQueue(interesting_voxels)
    /\ tsdf' = ClearedLayer(tsdf)
    /\ pushed' = ZeroPushed
    /\ prev' = NoPrev
    /\ UNCHANGED <<observed_voxels, ingest, config, publisher, library, camera_states_rotated_, vgain,
                   pc, call, scan, entry, ncalls>>

\* -------------------------------------------------- calcInfoGainCallback
\* int num_cam_poses = request.camera_poses.size() / 6
NumCamPoses(camera_poses) == Len(camera_poses) \div kStateSize

\* A state_vec always read from the head of the array.
StateVecFirst(camera_poses, idx) ==
    [pos |-> <<camera_poses[1], camera_poses[2]>>, yaw |-> camera_poses[kStateSize]]

\* state_vec << request.camera_poses[idx], ..., request.camera_poses[idx + 5]
\* (the array is 0-based in the code, 1-based here).
StateVecAt(camera_poses, idx) ==
    [pos |-> <<camera_poses[idx + 1], camera_poses[idx + 2]>>,
     yaw |-> camera_poses[idx + kStateSize]]

\* The requests explored: a first call carries up to MaxPoses poses on a map
\* that is still empty and one pose otherwise; a later call repeats the
\* request of the call before it.  Trailing values come only with a first
\* call on an empty map.
Explored(pcl, camera_poses) ==
    IF ncalls = 0
    THEN /\ NumCamPoses(camera_poses) <= (IF tsdf = EmptyLayer THEN MaxPoses ELSE 1)
         /\ tsdf # EmptyLayer => Len(camera_poses) % kStateSize = 0
    ELSE /\ prev.valid /\ prev.pcl = pcl /\ prev.camera_poses = camera_poses
         /\ Len(camera_poses) % kStateSize = 0

\* A callback that diffuses whatever decay_distance_ is.
RunsDiffusionAlways(decay_distance) == TRUE

\* if (decay_distance_ > 0.0)
RunsDiffusion(decay_distance) == decay_distance > 0

\* Entry: lightInsertPointcloud with the identity transform, then the choice
\* between diffusing and scoring.  call.trace is history: the phases the call
\* has entered, in order.
CalcInfoGainCallback ==
    /\ pc = "idle"
    /\ ncalls < MaxCalls
    /\ ncalls' = ncalls + 1
    /\ \E pcl \in Clouds, camera_poses \in Requests :
         /\ Explored(pcl, camera_poses)
         /\ LET st == ProcessPointCloud(
                         [layer |-> tsdf, queue |-> interesting_voxels,
                          pushed |-> pushed], <<0, 0>>, pcl)
            IN  /\ tsdf' = st.layer
                /\ interesting_voxels' = st.queue
                /\ pushed' = st.pushed
                /\ call' = [kind |-> "calc", pcl |-> pcl, camera_poses |-> camera_poses,
                            idx |-> 0, info_gain |-> <<>>, log |-> <<>>,
                            pristine |-> (tsdf = EmptyLayer),
                            trace |-> IF RunsDiffusion(decay_distance_)
                                      THEN <<"ingest", "spread">> ELSE <<"ingest">>]
                /\ prev' = IF prev.valid /\ prev.pcl = pcl /\ prev.camera_poses = camera_poses
                           THEN prev ELSE NoPrev
    /\ entry' = tsdf
    /\ pc' = IF RunsDiffusion(decay_distance_) THEN "spread" ELSE "loop"
    /\ UNCHANGED <<observed_voxels, ingest, config, publisher, library, camera_states_rotated_, vgain,
                   scan>>

\* One iteration of the while loop of spreadInterestingness.
SpreadStep ==
    /\ pc = "spread"
    /\ interesting_voxels # <<>>
    /\ HasVoxel(tsdf, Head(interesting_voxels))
    /\ \E st \in {SpreadIteration([layer |-> tsdf, queue |-> interesting_voxels,
                                    pushed |-> pushed])} :
           /\ tsdf' = st.layer
           /\ interesting_voxels' = st.queue
           /\ pushed' = st.pushed
    /\ UNCHANGED <<observed_voxels, ingest, config, publisher, library, camera_states_rotated_, vgain,
                   pc, call, scan, entry, prev, ncalls>>

\* spreadInterestingness returns when the frontier is empty.
SpreadReturn ==
    /\ pc = "spread"
    /\ interesting_voxels = <<>>
    /\ pc' = "loop"
    /\ UNCHANGED <<tsdf, interesting_voxels, observed_voxels, ingest, config, publisher, library,
                   camera_states_rotated_, vgain, call, scan, pushed, entry, prev, ncalls>>

\* computeVolumetricGainRayModelNoBound up to the first ray of getScanStatus.
BeginScan(state) ==
    [active |-> TRUE, state |-> state, pos |-> state.pos,
     multiray_endpoints |-> getFrustumEndpoints(state), i |-> 1, k |-> 1,
     num_unknown_voxels |-> 0, num_free_voxels |-> 0, num_occupied_voxels |-> 0,
     interestingness |-> 0,
     visited |-> {}]      \* history: the <<ray, position>> pairs traversed

\* The for loop of calcInfoGainCallback: score the next pose.
CalcNextPose ==
    /\ pc = "loop"
    /\ call.kind = "calc"
    /\ call.idx < kStateSize * NumCamPoses(call.camera_poses)
    /\ vgain' = ZeroGain
    /\ scan' = BeginScan(StateVecAt(call.camera_poses, call.idx))
    /\ pc' = "scan"
    /\ UNCHANGED <<tsdf, interesting_voxels, observed_voxels, ingest, config, publisher, library,
                   camera_states_rotated_, call, pushed, entry, prev, ncalls>>

\* After the last pose: clear(), and the response is complete.
CalcClear ==
    /\ pc = "loop"
    /\ call.kind = "calc"
    /\ call.idx >= kStateSize * NumCamPoses(call.camera_poses)
    /\ interesting_voxels' = ClearedQueue(interesting_voxels)
    /\ tsdf' = ClearedLayer(tsdf)
    /\ pushed' = ZeroPushed
    /\ call' = [call EXCEPT !.trace = Append(@, "clear")]
    /\ pc' = "ret"
    /\ UNCHANGED <<observed_voxels, ingest, config, publisher, library, camera_states_rotated_, vgain,
                   scan, entry, prev, ncalls>>

\* One iteration of the while loop over a ray in getScanStatus: classify the
\* voxel under the cursor, flag and count it if it is new, move the cursor.
\* st = [scan, layer, observed]: the locals, the layer, observed_voxels.
ScanAdvance(st) ==
    LET sc  == st.scan
        ray == Raycast(sc.pos, sc.multiray_endpoints[sc.i])
        global_index == ray[sc.k]
        voxel == VoxelAt(st.layer, global_index)
        class == Classify(voxel)
        new   == Counts(voxel)
        stop  == RayStops(class) \/ sc.k = Len(ray)
    IN  [layer |-> IF new
                   THEN [st.layer EXCEPT ![global_index] = MarkObserved(voxel)]
                   ELSE st.layer,
         observed |-> IF new THEN Append(st.observed, global_index) ELSE st.observed,
         scan |-> [sc EXCEPT
             !.num_unknown_voxels = IF new /\ class = "Unknown" THEN @ + 1 ELSE @,
             !.num_free_voxels = IF new /\ class = "Free" THEN @ + 1 ELSE @,
             !.num_occupied_voxels = IF new /\ class = "Occupied" THEN @ + 1 ELSE @,
             !.interestingness =
                 IF new THEN @ + GainOf(voxel, class, global_index, sc.pos) ELSE @,
             !.visited = @ \cup {<<sc.i, sc.k>>},
             !.i = IF stop THEN @ + 1 ELSE @,
             !.k = IF stop THEN 1 ELSE @ + 1]]

ScanStep ==
    /\ pc = "scan"
    /\ scan.i <= Len(scan.multiray_endpoints)
    /\ LET st == ScanAdvance([scan |-> scan, layer |-> tsdf, observed |-> observed_voxels])
       IN  /\ tsdf' = st.layer
           /\ observed_voxels' = st.observed
           /\ scan' = st.scan
    /\ UNCHANGED <<interesting_voxels, ingest, config, publisher, library, camera_states_rotated_, vgain,
                   pc, call, pushed, entry, prev, ncalls>>

\* What computeVolumetricGainRayModelNoBound writes into vgain.
GainRecord(sc) ==
    [gain |-> sc.interestingness,
     num_unknown_voxels |-> sc.num_unknown_voxels,
     num_free_voxels |-> sc.num_free_voxels,
     num_occupied_voxels |-> sc.num_occupied_voxels]

\* getScanStatus returns; computeVolumetricGainRayModelNoBound fills vgain and
\* the caller records the gain.
ScanReturn ==
    /\ pc = "scan"
    /\ scan.i > Len(scan.multiray_endpoints)
    /\ LET result == GainRecord(scan)
           logged == Append(call.log, [state |-> scan.state, vgain |-> result])
       IN  /\ vgain' = result
           /\ call' = IF call.kind = "calc"
                      THEN [call EXCEPT !.info_gain = Append(@, result.gain),
                                        !.log = logged,
                                        !.trace = Append(@, "gain")]
                      ELSE [call EXCEPT !.seq_gain = @ + result.gain,
                                        !.log = logged]
    /\ scan' = NoScan
    /\ pc' = "drain"
    /\ UNCHANGED <<tsdf, interesting_voxels, observed_voxels, ingest, config, publisher, library,
                   camera_states_rotated_, pushed, entry, prev, ncalls>>

\* One iteration of the reset loop after a pose.
DrainStep ==
    /\ pc = "drain"
    /\ observed_voxels # <<>>
    /\ LET global_index == Head(observed_voxels)
       IN  /\ HasVoxel(tsdf, global_index)
           /\ tsdf' = [tsdf EXCEPT ![global_index] = ResetObserved(@)]
    /\ observed_voxels' = Tail(observed_voxels)
    /\ UNCHANGED <<interesting_voxels, ingest, config, publisher, library, camera_states_rotated_, vgain,
                   pc, call, scan, pushed, entry, prev, ncalls>>

\* The reset loop ends; the caller's loop goes on.
DrainDone ==
    /\ pc = "drain"
    /\ observed_voxels = <<>>
    /\ call' = IF call.kind = "calc" THEN [call EXCEPT !.idx = @ + kStateSize]
               ELSE [call EXCEPT !.idx2 = @ + 1]
    /\ pc' = "loop"
    /\ UNCHANGED <<tsdf, interesting_voxels, observed_voxels, ingest, config, publisher, library,
                   camera_states_rotated_, vgain, scan, pushed, entry, prev, ncalls>>

\* ---------------------------------------------- baselineInfoGainCallback
\* The rotation loop: every timestep's columns of the working copy are the
\* library's positions turned by the robot's yaw and moved to its position.
RotateLibrary(states, robot_pose) ==
    [idx \in Rows |-> [j \in Timesteps |->
        Add(Rot(robot_pose.yaw, states[idx][j].pos), robot_pose.pos)]]

\* A rotation loop that writes its result back into the library.
LibraryRotatedInPlace(states, rotated) ==
    [idx \in Rows |-> [j \in Timesteps |->
        [states[idx][j] EXCEPT !.pos = rotated[idx][j]]]]

\* The rotation loop reads camera_states_ and writes only the working copy.
LibraryAfterRotation(states, rotated) == states

\* The calls explored: a first call, or a baselineInfoGainCallback that
\* follows another on an empty map.
ExploredBaseline ==
    ncalls = 0 \/ (camera_states_rotated_ # ZeroStates /\ tsdf = EmptyLayer)

\* Entry: rotate and translate the library into the robot's frame.
\* call.before is history: the working copy the call found.  `explored` says
\* whether the call is made in this state, `history` what prev becomes.
BaselineEntry(explored, history) ==
    /\ pc = "idle"
    /\ ncalls < MaxCalls
    /\ explored
    /\ ncalls' = ncalls + 1
    /\ \E robot_pose \in Poses :
         /\ camera_states_rotated_' = RotateLibrary(camera_states_, robot_pose)
         /\ camera_states_' = LibraryAfterRotation(camera_states_, camera_states_rotated_')
         /\ call' = [kind |-> "baseline", robot_pose |-> robot_pose, idx |-> 0,
                     idx2 |-> 0, seq_gain |-> 0, info_gain |-> <<>>, log |-> <<>>,
                     before |-> camera_states_rotated_]
    /\ entry' = tsdf
    /\ prev' = history
    /\ pc' = "loop"
    /\ UNCHANGED <<tsdf, interesting_voxels, observed_voxels, ingest, config, publisher,
                   action_sequences_, vgain, scan, pushed>>

\* TsdfServer::baselineInfoGainCallback
BaselineInfoGainCallback == BaselineEntry(ExploredBaseline, NoPrev)

\* The scored timesteps of the row that are still to come.
Remaining == {j \in ScoredTimesteps : j >= call.idx2 /\ j < kNumTimestep}

\* The inner loop reaches the row's next scored timestep and scores it.
BaselineNextPose ==
    /\ pc = "loop"
    /\ call.kind = "baseline"
    /\ call.idx < NumSequences
    /\ Remaining # {}
    /\ LET j == CHOOSE j \in Remaining : \A o \in Remaining : j <= o
       IN  /\ call' = [call EXCEPT !.idx2 = j]
           /\ scan' = BeginScan(
                 [pos |-> camera_states_rotated_[call.idx][j],
                  yaw |-> call.robot_pose.yaw + camera_states_[call.idx][j].yaw])
    /\ vgain' = ZeroGain
    /\ pc' = "scan"
    /\ UNCHANGED <<tsdf, interesting_voxels, observed_voxels, ingest, config, publisher, library,
                   camera_states_rotated_, pushed, entry, prev, ncalls>>

\* The inner loop ends: the row's summed gain is appended to the response.
BaselineRowEnd ==
    /\ pc = "loop"
    /\ call.kind = "baseline"
    /\ call.idx < NumSequences
    /\ Remaining = {}
    /\ call' = [call EXCEPT !.info_gain = Append(@, call.seq_gain),
                            !.idx = @ + 1, !.idx2 = 0, !.seq_gain = 0]
    /\ UNCHANGED <<tsdf, interesting_voxels, observed_voxels, ingest, config, publisher, library,
                   camera_states_rotated_, vgain, pc, scan, pushed, entry, prev, ncalls>>

\* The outer loop ends.
BaselineDone ==
    /\ pc = "loop"
    /\ call.kind = "baseline"
    /\ call.idx >= NumSequences
    /\ pc' = "ret"
    /\ UNCHANGED <<tsdf, interesting_voxels, observed_voxels, ingest, config, publisher, library,
                   camera_states_rotated_, vgain, call, scan, pushed, entry, prev, ncalls>>

\* ---------------------------------------------------------------- return
\* The running callback returns true and the server is idle again.  prev keeps
\* the calls the exploration repeats.
Return ==
    /\ pc = "ret"
    /\ prev' = IF call.kind = "calc" /\ Len(call.camera_poses) % kStateSize = 0
               THEN [valid |-> TRUE, pcl |-> call.pcl, camera_poses |-> call.camera_poses,
                     info_gain |-> call.info_gain, pristine |-> call.pristine]
               ELSE NoPrev
    /\ call' = NoCall
    /\ entry' = EmptyLayer
    /\ pc' = "idle"
    /\ UNCHANGED <<tsdf, interesting_voxels, observed_voxels, ingest, config, publisher, library,
                   camera_states_rotated_, vgain, scan, pushed, ncalls>>

Next ==
    \/ InsertPointcloudWithInterestingness
    \/ ClearMapCallback
    \/ CalcInfoGainCallback
    \/ SpreadStep
    \/ SpreadReturn
    \/ CalcNextPose
    \/ CalcClear
    \/ ScanStep
    \/ ScanReturn
    \/ DrainStep
    \/ DrainDone
    \/ BaselineInfoGainCallback
    \/ BaselineNextPose
    \/ BaselineRowEnd
    \/ BaselineDone
    \/ Return

Spec == Init /\ [][Next]_vars

\* ----------------------------------------- spreadInterestingness, alone
\* spreadInterestingness on any layer of freshly allocated blocks, with any
\* frontier of up to MaxFrontier existing voxels (seeded or not, Unknown or
\* Occupied) and any decay_distance_ up to MaxDecayDistance.
FreshLayers ==
    {[i \in Grid |-> IF i[2] \in rows THEN NewVoxel ELSE NoVoxel] :
        rows \in SUBSET (0 .. GridY - 1)}
Frontiers(layer) ==
    UNION {[1 .. n -> {i \in Grid : layer[i].exists}] : n \in 0 .. MaxFrontier}

FrontierVoxel(voxel, seeded, occupied) ==
    [voxel EXCEPT !.interestingness = kPassFilterMax,
                  !.weight = IF occupied THEN kObservationWeight ELSE 0,
                  !.interesting_distance = IF seeded THEN 0 ELSE @,
                  !.in_queue = seeded]

SpreadInit ==
    /\ \E layer \in FreshLayers, seeded \in BOOLEAN, occupied \in BOOLEAN :
         \E frontier \in Frontiers(layer) :
           LET members == {frontier[n] : n \in 1 .. Len(frontier)}
           IN  /\ tsdf = [i \in Grid |->
                            IF i \in members
                            THEN FrontierVoxel(layer[i], seeded, occupied)
                            ELSE layer[i]]
               /\ interesting_voxels = frontier
               /\ pushed = [i \in Grid |-> IF i \in members THEN 1 ELSE 0]
    /\ decay_distance_ \in 0 .. MaxDecayDistance
    /\ observed_voxels = <<>>
    /\ pointcloud_queue_ = <<>>
    /\ last_msg_time_ptcloud_ = 0
    /\ min_time_between_msgs_ = 0
    /\ accepted = <<>>
    /\ processed = <<>>
    /\ FreespaceOff
    /\ camera_param = CameraParam(1)
    /\ frustum_endpoints_B = InitializeFrustum(1)
    /\ decay_lambda_ = 1
    /\ area_factor_ = 1
    /\ camera_states_ = ForwardDynamics
    /\ action_sequences_ = ActionLibrary
    /\ camera_states_rotated_ = ZeroStates
    /\ vgain = ZeroGain
    /\ pc = "spread"
    /\ call = [kind |-> "calc", pcl |-> <<>>, camera_poses |-> <<>>, idx |-> 0,
               info_gain |-> <<>>, log |-> <<>>, pristine |-> FALSE,
               trace |-> <<"ingest", "spread">>]
    /\ scan = NoScan
    /\ entry = tsdf
    /\ prev = NoPrev
    /\ ncalls = 1
    /\ MapPublishingOff

SpreadNext == SpreadStep \/ SpreadReturn

SpreadSpec == SpreadInit /\ [][SpreadNext]_vars

\* The loop is not suspended: an iteration that can run does run.
SpreadFairSpec == SpreadSpec /\ WF_vars(SpreadStep) /\ WF_vars(SpreadReturn)

\* ------------------------------------- the diffusion pass after an ingestion
\* spreadInterestingness entered with what the seeding loop leaves behind: the
\* seeds are Occupied voxels at interesting_distance 0, queued in the order they
\* were seeded, each with an interestingness the pass filter lets through; the
\* other allocated voxels are untouched (Unknown) or carved Free by a ray.
SeedValues == {kPassFilterMin, kPassFilterMax}
SeedLists(layer) ==
    {q \in UNION {[1 .. n -> {i \in Grid : layer[i].exists}] : n \in 0 .. MaxSeeds} :
        \A a, b \in 1 .. Len(q) : a # b => q[a] # q[b]}
SeedVoxel(voxel, interestingness) ==
    [voxel EXCEPT !.distance = 0,
                  !.weight = kObservationWeight,
                  !.interestingness = interestingness,
                  !.interesting_distance = 0,
                  !.in_queue = TRUE]
CarvedVoxel(voxel) ==
    [voxel EXCEPT !.distance = kTruncationDistance,
                  !.weight = kObservationWeight]

\* The pass entered with decay_distance_ drawn from `distances`.
DiffusePass(distances) ==
    /\ \E layer \in FreshLayers :
         \E seeds \in SeedLists(layer) :
           LET members == {seeds[n] : n \in 1 .. Len(seeds)}
           IN  \E values \in [members -> SeedValues],
                  carved \in {c \in SUBSET {i \in Grid : layer[i].exists /\ i \notin members} :
                                 Cardinality(c) <= MaxCarved} :
                 /\ tsdf = [i \in Grid |->
                              IF i \in members THEN SeedVoxel(layer[i], values[i])
                              ELSE IF i \in carved THEN CarvedVoxel(layer[i])
                              ELSE layer[i]]
                 /\ interesting_voxels = seeds
                 /\ pushed = [i \in Grid |-> IF i \in members THEN 1 ELSE 0]
    /\ decay_distance_ \in distances
    /\ decay_lambda_ \in {1, 2}
    /\ observed_voxels = <<>>
    /\ pointcloud_queue_ = <<>>
    /\ last_msg_time_ptcloud_ = 0
    /\ min_time_between_msgs_ = 0
    /\ accepted = <<>>
    /\ processed = <<>>
    /\ FreespaceOff
    /\ camera_param = CameraParam(1)
    /\ frustum_endpoints_B = InitializeFrustum(1)
    /\ area_factor_ = 1
    /\ camera_states_ = ForwardDynamics
    /\ action_sequences_ = ActionLibrary
    /\ camera_states_rotated_ = ZeroStates
    /\ vgain = ZeroGain
    /\ pc = "spread"
    /\ call = [kind |-> "calc", pcl |-> <<>>, camera_poses |-> <<>>, idx |-> 0,
               info_gain |-> <<>>, log |-> <<>>, pristine |-> FALSE,
               trace |-> <<"ingest", "spread">>]
    /\ scan = NoScan
    /\ entry = tsdf
    /\ prev = NoPrev
    /\ ncalls = 1
    /\ MapPublishingOff

DiffuseInit == DiffusePass(1 .. MaxDecayDistance + 1)

DiffuseSpec == DiffuseInit /\ [][SpreadNext]_vars

\* The same pass with a decay_distance_ that lets the frontier go round a
\* voxel it may not enter: on this grid the way round costs two more hops.
DetourInit == DiffusePass(1 .. MaxDecayDistance + 2)

DetourSpec == DetourInit /\ [][SpreadNext]_vars

\* ------------------------------------------ SensorParamsBase::initialize alone
\* The constructor sets max_range, fov and resolution and calls initialize();
\* here for every field of view and resolution within the bounds (a resolution
\* of 0 takes the default).
FrustumInit ==
    /\ \E fov \in (1 .. MaxFov) \X (1 .. MaxFov),
          resolution \in (0 .. MaxResolution) \X (0 .. MaxResolution) :
         camera_param = SensorParams(fov, resolution)
    /\ frustum_endpoints_B = <<>>
    /\ tsdf = EmptyLayer
    /\ interesting_voxels = <<>>
    /\ observed_voxels = <<>>
    /\ pointcloud_queue_ = <<>>
    /\ last_msg_time_ptcloud_ = 0
    /\ min_time_between_msgs_ = 0
    /\ accepted = <<>>
    /\ processed = <<>>
    /\ FreespaceOff
    /\ decay_distance_ = MaxDecayDistance
    /\ decay_lambda_ = 1
    /\ area_factor_ = 1
    /\ camera_states_ = ForwardDynamics
    /\ action_sequences_ = ActionLibrary
    /\ camera_states_rotated_ = ZeroStates
    /\ vgain = ZeroGain
    /\ pc = "idle"
    /\ call = NoCall
    /\ scan = NoScan
    /\ pushed = ZeroPushed
    /\ entry = EmptyLayer
    /\ prev = NoPrev
    /\ ncalls = 0
    /\ MapPublishingOff

\* camera_param.initialize()
InitializeCall ==
    /\ camera_param' = Initialize(camera_param)
    /\ frustum_endpoints_B' = Slice(camera_param'.frustum_endpoints)
    /\ UNCHANGED <<tsdf, interesting_voxels, observed_voxels, ingest, publisher,
                   min_time_between_msgs_, use_freespace_pointcloud_,
                   max_block_distance_from_body_, decay_distance_,
                   decay_lambda_, area_factor_, library, camera_states_rotated_, vgain,
                   pc, call, scan, pushed, entry, prev, ncalls>>

FrustumSpec == FrustumInit /\ [][InitializeCall]_vars

\* ---------------------------------- the gain function under any caller
\* computeVolumetricGainRayModelNoBound is a public method: this specification
\* calls it for up to MaxPoses poses on a layer whose voxels are drawn from the
\* data model (signed distances up to the truncation distance on either side
\* of the surface, weights around the epsilon), and the caller runs the reset
\* loop after a pose or leaves it out.
ScanVoxel(distance, weight, interestingness) ==
    [NewVoxel EXCEPT !.distance = distance, !.weight = weight,
                     !.interestingness = interestingness]

DrawnVoxels ==
    { NoVoxel,
      ScanVoxel(0, 0, kPassFilterMax),                              \* never observed
      ScanVoxel(0, kObservationWeight, kPassFilterMax),             \* on the surface
      ScanVoxel(distance_thres, kWeightEpsilon, 0),                 \* at the threshold
      ScanVoxel(distance_thres + 1, kWeightEpsilon, kPassFilterMax),\* just above it
      ScanVoxel(-kTruncationDistance, kObservationWeight, kPassFilterMax) } \* behind

ScanLayers ==
    UNION { { [i \in Grid |-> IF i \in DOMAIN f THEN f[i] ELSE NewVoxel] :
                f \in [drawn -> DrawnVoxels] } :
            drawn \in {d \in SUBSET Grid : Cardinality(d) <= MaxDrawn} }

ScanPoses == {p \in Poses : p.pos = <<0, 0>> /\ p.yaw \in {0, 1}}

ScanRequests ==
    {Flatten(poses) : poses \in UNION {[1 .. n -> ScanPoses] : n \in 0 .. MaxPoses}}

ScanInit ==
    /\ tsdf \in ScanLayers
    /\ \E camera_poses \in ScanRequests :
         call = [kind |-> "calc", pcl |-> <<>>, camera_poses |-> camera_poses, idx |-> 0,
                 info_gain |-> <<>>, log |-> <<>>, pristine |-> FALSE,
                 trace |-> <<"ingest">>]
    /\ interesting_voxels = <<>>
    /\ observed_voxels = <<>>
    /\ pointcloud_queue_ = <<>>
    /\ last_msg_time_ptcloud_ = 0
    /\ min_time_between_msgs_ = 0
    /\ accepted = <<>>
    /\ processed = <<>>
    /\ FreespaceOff
    /\ camera_param = CameraParam(MaxWidth)
    /\ frustum_endpoints_B = InitializeFrustum(MaxWidth)
    /\ decay_distance_ = 0
    /\ decay_lambda_ = 1
    /\ area_factor_ = 1
    /\ camera_states_ = ForwardDynamics
    /\ action_sequences_ = ActionLibrary
    /\ camera_states_rotated_ = ZeroStates
    /\ vgain = ZeroGain
    /\ pc = "loop"
    /\ scan = NoScan
    /\ pushed = ZeroPushed
    /\ entry = tsdf
    /\ prev = NoPrev
    /\ ncalls = 1
    /\ MapPublishingOff

\* A caller that goes on to the next pose without the reset loop, once in a
\* call: no iteration of the loop has run (the queue still holds everything
\* the pose counted) and the poses before were reset.
SkipReset ==
    /\ pc = "drain"
    /\ call.kind = "calc"
    /\ observed_voxels # <<>>
    /\ Len(observed_voxels) = vgain.num_unknown_voxels + vgain.num_free_voxels
                                + vgain.num_occupied_voxels
    /\ \A n \in DOMAIN call.trace : call.trace[n] # "skip"
    /\ call' = [call EXCEPT !.idx = @ + kStateSize, !.trace = Append(@, "skip")]
    /\ pc' = "loop"
    /\ UNCHANGED <<tsdf, interesting_voxels, observed_voxels, ingest, config, publisher, library,
                   camera_states_rotated_, vgain, scan, pushed, entry, prev, ncalls>>

ScanNext ==
    \/ CalcNextPose
    \/ ScanStep
    \/ ScanReturn
    \/ DrainStep
    \/ DrainDone
    \/ SkipReset

ScanSpec == ScanInit /\ [][ScanNext]_vars

\* ------------------------------------------- two gain queries on one map
\* Two queries, each scoring one pose, on the shared layer and observed_voxels.
\* A query begins, runs the ray loop, returns its gain and runs the reset
\* loop; the steps of the two are interleaved in every order, the orders that
\* run one query after the other included. Here scan, and the pose, phase and
\* result of the call record, hold one entry for each query.
Queries == {"a", "b"}

Other(q) == IF q = "a" THEN "b" ELSE "a"

PairLayers ==
    { [i \in Grid |-> IF i = d THEN v ELSE NewVoxel] : d \in Grid, v \in DrawnVoxels }

PairInit ==
    /\ tsdf \in PairLayers
    /\ \E pose \in [Queries -> ScanPoses] :
         call = [kind |-> "pair", pose |-> pose,
                 phase |-> [q \in Queries |-> "idle"],
                 result |-> [q \in Queries |-> ZeroGain],
                 overlapped |-> [q \in Queries |-> FALSE]]
    /\ scan = [q \in Queries |-> NoScan]
    /\ pc = "pair"
    /\ interesting_voxels = <<>>
    /\ observed_voxels = <<>>
    /\ pointcloud_queue_ = <<>>
    /\ last_msg_time_ptcloud_ = 0
    /\ min_time_between_msgs_ = 0
    /\ accepted = <<>>
    /\ processed = <<>>
    /\ FreespaceOff
    /\ camera_param = CameraParam(MaxWidth)
    /\ frustum_endpoints_B = InitializeFrustum(MaxWidth)
    /\ decay_distance_ = 0
    /\ decay_lambda_ = 1
    /\ area_factor_ = 1
    /\ camera_states_ = ForwardDynamics
    /\ action_sequences_ = ActionLibrary
    /\ camera_states_rotated_ = ZeroStates
    /\ vgain = ZeroGain
    /\ pushed = ZeroPushed
    /\ entry = tsdf
    /\ prev = NoPrev
    /\ ncalls = 2
    /\ MapPublishingOff

PairFrame ==
    UNCHANGED <<interesting_voxels, ingest, config, publisher, library, camera_states_rotated_, vgain,
                pc, pushed, entry, prev, ncalls>>

\* computeVolumetricGainRayModelNoBound is entered for the query's pose.
QueryBegin(q) ==
    /\ pc = "pair"
    /\ call.phase[q] = "idle"
    /\ scan' = [scan EXCEPT ![q] = BeginScan(call.pose[q])]
    /\ LET overlap == call.phase[Other(q)] \in {"scan", "drain"}
       IN  call' = [call EXCEPT !.phase[q] = "scan",
                                !.overlapped = [p \in Queries |-> @[p] \/ overlap]]
    /\ UNCHANGED <<tsdf, observed_voxels>>
    /\ PairFrame

\* One iteration of the query's ray loop.
QueryStep(q) ==
    /\ pc = "pair"
    /\ call.phase[q] = "scan"
    /\ scan[q].i <= Len(scan[q].multiray_endpoints)
    /\ LET st == ScanAdvance([scan |-> scan[q], layer |-> tsdf, observed |-> observed_voxels])
       IN  /\ tsdf' = st.layer
           /\ observed_voxels' = st.observed
           /\ scan' = [scan EXCEPT ![q] = st.scan]
    /\ UNCHANGED call
    /\ PairFrame

\* The query's gain function returns.
QueryReturn(q) ==
    /\ pc = "pair"
    /\ call.phase[q] = "scan"
    /\ scan[q].i > Len(scan[q].multiray_endpoints)
    /\ call' = [call EXCEPT !.phase[q] = "drain", !.result[q] = GainRecord(scan[q])]
    /\ scan' = [scan EXCEPT ![q] = NoScan]
    /\ UNCHANGED <<tsdf, observed_voxels>>
    /\ PairFrame

\* One iteration of the query's reset loop, on the shared queue.
QueryDrain(q) ==
    /\ pc = "pair"
    /\ call.phase[q] = "drain"
    /\ observed_voxels # <<>>
    /\ tsdf' = [tsdf EXCEPT ![Head(observed_voxels)] = ResetObserved(@)]
    /\ observed_voxels' = Tail(observed_voxels)
    /\ UNCHANGED <<call, scan>>
    /\ PairFrame

\* The query's reset loop finds the queue empty.
QueryDone(q) ==
    /\ pc = "pair"
    /\ call.phase[q] = "drain"
    /\ observed_voxels = <<>>
    /\ call' = [call EXCEPT !.phase[q] = "done"]
    /\ UNCHANGED <<tsdf, observed_voxels, scan>>
    /\ PairFrame

PairNext ==
    \E q \in Queries :
       \/ QueryBegin(q)
       \/ QueryStep(q)
       \/ QueryReturn(q)
       \/ QueryDrain(q)
       \/ QueryDone(q)

PairSpec == PairInit /\ [][PairNext]_vars

\* ------------------------------------------------------- map publishing
\* The map topic with up to MaxSubscribers subscribers coming and going, and
\* publishMap called by the timer and the service (reset_remote_map false) or
\* by clear() (true). The joined field is history: who subscribed since the
\* previous publishMap call and is still there.
SubscriberIds == 1 .. MaxSubscribers

PublishInit ==
    /\ publish_tsdf_map_ \in BOOLEAN
    /\ tsdf_map_pub_ = [subscribers |-> {}, joined |-> {}, sent |-> NoMsg]
    /\ num_subscribers_tsdf_map_ = 0
    /\ tsdf = EmptyLayer
    /\ interesting_voxels = <<>>
    /\ observed_voxels = <<>>
    /\ pointcloud_queue_ = <<>>
    /\ last_msg_time_ptcloud_ = 0
    /\ min_time_between_msgs_ = 0
    /\ accepted = <<>>
    /\ processed = <<>>
    /\ FreespaceOff
    /\ camera_param = CameraParam(1)
    /\ frustum_endpoints_B = InitializeFrustum(1)
    /\ decay_distance_ = 0
    /\ decay_lambda_ = 1
    /\ area_factor_ = 1
    /\ camera_states_ = ForwardDynamics
    /\ action_sequences_ = ActionLibrary
    /\ camera_states_rotated_ = ZeroStates
    /\ vgain = ZeroGain
    /\ pc = "idle"
    /\ call = NoCall
    /\ scan = NoScan
    /\ pushed = ZeroPushed
    /\ entry = tsdf
    /\ prev = NoPrev
    /\ ncalls = 0

PublishFrame ==
    UNCHANGED <<tsdf, interesting_voxels, observed_voxels, ingest, config, library,
                camera_states_rotated_, vgain, pc, call, scan, pushed, entry, prev, ncalls,
                publish_tsdf_map_>>

Subscribe ==
    /\ \E id \in SubscriberIds \ tsdf_map_pub_.subscribers :
         tsdf_map_pub_' = [tsdf_map_pub_ EXCEPT !.subscribers = @ \cup {id},
                                                !.joined = @ \cup {id}]
    /\ UNCHANGED num_subscribers_tsdf_map_
    /\ PublishFrame

Unsubscribe ==
    /\ \E id \in tsdf_map_pub_.subscribers :
         tsdf_map_pub_' = [tsdf_map_pub_ EXCEPT !.subscribers = @ \ {id},
                                                !.joined = @ \ {id}]
    /\ UNCHANGED num_subscribers_tsdf_map_
    /\ PublishFrame

\* The test that turns a publishMap call into a reset.
NewSubscriber(subscribers) == num_subscribers_tsdf_map_ < subscribers

\* TsdfServer::publishMap
PublishMap ==
    \E reset_remote_map \in BOOLEAN :
       LET subscribers == Cardinality(tsdf_map_pub_.subscribers)
           reset == reset_remote_map \/ NewSubscriber(subscribers)
           only_updated == ~reset
           layer_msg == [published |-> TRUE,
                         action |-> IF reset THEN "kReset" ELSE "serialized",
                         only_updated |-> only_updated,
                         joined |-> tsdf_map_pub_.joined]
       IN  /\ publish_tsdf_map_
           /\ tsdf_map_pub_' = [tsdf_map_pub_ EXCEPT
                                  !.sent = IF subscribers > 0 THEN layer_msg ELSE @,
                                  !.joined = {}]
           /\ num_subscribers_tsdf_map_' = subscribers
           /\ PublishFrame

\* publishMap with publish_tsdf_map false returns at once.
PublishMapOff ==
    /\ ~publish_tsdf_map_
    /\ tsdf_map_pub_' = [tsdf_map_pub_ EXCEPT !.joined = {}]
    /\ UNCHANGED num_subscribers_tsdf_map_
    /\ PublishFrame

PublishNext == Subscribe \/ Unsubscribe \/ PublishMap \/ PublishMapOff

PublishSpec == PublishInit /\ [][PublishNext]_vars

\* ------------------------------------------------ the input throttle
\* Both pointcloud callbacks fed with empty clouds stamped 0 .. MaxThrottleStamp
\* in any order, for a minimum spacing of -1, 0 or 1; up to MaxQueued accepted
\* messages wait for their transform.
ThrottleMessages == [stamp : 0 .. MaxThrottleStamp, cloud : {<<>>}]

ThrottleInit ==
    /\ min_time_between_msgs_ \in {-1, 0, 1}
    /\ last_msg_time_ptcloud_ = 0
    /\ accepted = <<>>
    /\ processed = <<>>
    /\ FreespaceOff
    /\ pointcloud_queue_ = <<>>
    /\ tsdf = EmptyLayer
    /\ interesting_voxels = <<>>
    /\ observed_voxels = <<>>
    /\ camera_param = CameraParam(1)
    /\ frustum_endpoints_B = InitializeFrustum(1)
    /\ decay_distance_ = 0
    /\ decay_lambda_ = 1
    /\ area_factor_ = 1
    /\ camera_states_ = ForwardDynamics
    /\ action_sequences_ = ActionLibrary
    /\ camera_states_rotated_ = ZeroStates
    /\ vgain = ZeroGain
    /\ pc = "idle"
    /\ call = NoCall
    /\ scan = NoScan
    /\ pushed = ZeroPushed
    /\ entry = tsdf
    /\ prev = NoPrev
    /\ ncalls = 0
    /\ MapPublishingOff

\* TsdfServer::insertPointcloud
InsertPointcloud ==
    /\ Len(accepted) < MaxAccepted
    /\ InsertMessage(ThrottleMessages, MaxQueued)

\* TsdfServer::insertPointcloudWithInterestingness, on the same queue and stamp.
InsertInterestingPointcloud ==
    /\ Len(accepted) < MaxAccepted
    /\ InsertMessage(ThrottleMessages, MaxQueued)

ThrottleNext == InsertPointcloud \/ InsertInterestingPointcloud

ThrottleSpec == ThrottleInit /\ [][ThrottleNext]_vars

\* ------------------------------------------------ the pending queue
\* The pointcloud callback fed with empty clouds whose stamps go up by at most
\* one per message, up to MaxArrivals, with no minimum spacing; a message may
\* repeat the last stamp (and is rejected).  Transforms become available for
\* any number of messages at the front of the queue, also for none, so that
\* the queue can grow to kMaxQueueSize.
Arrivals ==
    [stamp : {t \in 1 .. MaxArrivals : t <= last_msg_time_ptcloud_ + 1}, cloud : {<<>>}]

BacklogInit == ThrottleInit /\ min_time_between_msgs_ = 0

InsertPointcloudBacklog == InsertMessage(Arrivals, kMaxQueueSize)

BacklogSpec == BacklogInit /\ [][InsertPointcloudBacklog]_vars

\* ------------------------------- freespace ingestion and the saved distances
\* Layer::removeDistantBlocks(center, max_distance): a block whose origin is
\* farther from the centre than max_distance is removed with all its voxels.
BlockOrigin(i) == <<0, i[2]>>
RemoveDistantBlocks(layer, center, max_distance) ==
    [i \in Grid |->
        IF SqDist(BlockOrigin(i), center) > max_distance * max_distance
        THEN NoVoxel ELSE layer[i]]

\* One point of integratePointCloud for a freespace cloud: the voxels of the
\* ray, the point's own included, are carved free; interestingness is not
\* integrated.
IntegrateFreespacePoint(layer, T_G_C, pt) ==
    LET ray    == Raycast(T_G_C, Add(T_G_C, pt.p))
        cells  == {ray[k] : k \in 1 .. Len(ray)} \cap Grid
        alloc(i) == IF layer[i].exists THEN layer[i] ELSE NewVoxel
    IN  [i \in Grid |->
           IF i \in cells THEN UpdateTsdfVoxel(alloc(i), kTruncationDistance, FALSE, 0)
           ELSE IF \E c \in cells : SameBlock(i, c) THEN alloc(i)
           ELSE layer[i]]

RECURSIVE integrateFreespacePointcloud(_, _, _)
integrateFreespacePointcloud(layer, T_G_C, cloud) ==
    IF cloud = <<>> THEN layer
    ELSE integrateFreespacePointcloud(IntegrateFreespacePoint(layer, T_G_C, Head(cloud)),
                                      T_G_C, Tail(cloud))

\* processPointCloudMessageAndInsert: integrate, then remove the blocks that
\* are too far from the body.
ProcessPointCloudMessageAndInsert(layer, T_G_C, cloud) ==
    RemoveDistantBlocks(integrateFreespacePointcloud(layer, T_G_C, cloud), T_G_C,
                        max_block_distance_from_body_)

RECURSIVE ProcessFreespaceMessages(_, _, _)
ProcessFreespaceMessages(layer, msgs, Ts) ==
    IF msgs = <<>> THEN layer
    ELSE ProcessFreespaceMessages(
             ProcessPointCloudMessageAndInsert(layer, Head(Ts), Head(msgs).cloud),
             Tail(msgs), Tail(Ts))

\* The clouds and body positions of the freespace topic, and the stamps of
\* both topics.
FreespaceClouds == {<<>>} \cup {<<[p |-> i, intensity |-> 0]>> : i \in PoseOrigins}
BodyPositions == PoseOrigins
FreespaceMessages == [stamp : 1 .. MaxRemovalStamp, cloud : FreespaceClouds]
RemovalMessages == [stamp : 1 .. MaxRemovalStamp, cloud : Clouds]

\* TsdfServer::insertFreespacePointcloud: the throttle on its own last stamp,
\* its own queue, and every message that has a transform is integrated. The
\* transforms are there when the messages arrive, so that no message waits
\* and a callback integrates the message it was called with.
InsertFreespacePointcloud ==
    /\ pc = "idle"
    /\ use_freespace_pointcloud_
    /\ \E msg \in FreespaceMessages :
         LET accept == msg.stamp - last_msg_time_freespace_ptcloud_ > min_time_between_msgs_
             queue  == IF accept THEN Append(freespace_pointcloud_queue_, msg)
                       ELSE freespace_pointcloud_queue_
         IN  \E n \in 0 .. Len(queue) :
             \E Ts \in [1 .. n -> BodyPositions] :
               LET rest == SubSeq(queue, n + 1, Len(queue))
               IN  /\ rest = <<>>
                   /\ last_msg_time_freespace_ptcloud_' =
                        IF accept THEN msg.stamp ELSE last_msg_time_freespace_ptcloud_
                   /\ freespace_pointcloud_queue_' = DropOldest(rest)
                   /\ tsdf' = ProcessFreespaceMessages(tsdf, SubSeq(queue, 1, n), Ts)
    /\ prev' = NoPrev
    /\ UNCHANGED <<interesting_voxels, observed_voxels, pointcloud_queue_,
                   last_msg_time_ptcloud_, accepted, processed, config, publisher,
                   library, camera_states_rotated_, vgain, pc, call, scan, pushed,
                   entry, ncalls>>

\* The interestingness callback on the same server, no message waiting.
InsertInterestingCloud == InsertMessage(RemovalMessages, 0)

\* saveViewingDistanceCallback opens its files.
SaveViewingDistanceCallback ==
    /\ pc = "idle"
    /\ pc' = "save"
    /\ call' = [kind |-> "save", written |-> 0]
    /\ prev' = NoPrev
    /\ UNCHANGED <<tsdf, interesting_voxels, observed_voxels, ingest, config, publisher,
                   library, camera_states_rotated_, vgain, scan, pushed, entry, ncalls>>

\* One iteration of its while loop: the front index is looked up, the voxel's
\* fields are written to the files, the index is popped.
SaveViewingStep ==
    /\ pc = "save"
    /\ interesting_voxels # <<>>
    /\ HasVoxel(tsdf, Head(interesting_voxels))
    /\ interesting_voxels' = Tail(interesting_voxels)
    /\ call' = [call EXCEPT !.written = 1]
    /\ UNCHANGED <<tsdf, observed_voxels, ingest, config, publisher, library,
                   camera_states_rotated_, vgain, pc, scan, pushed, entry, prev, ncalls>>

\* The same iteration when the lookup gives nullptr: the reads through the
\* null pointer are undefined; the process is killed, or it reads whatever
\* is there and the loop goes on.
SaveViewingNull ==
    /\ pc = "save"
    /\ interesting_voxels # <<>>
    /\ ~HasVoxel(tsdf, Head(interesting_voxels))
    /\ \/ /\ pc' = "crashed"
          /\ UNCHANGED interesting_voxels
       \/ /\ pc' = "save"
          /\ interesting_voxels' = Tail(interesting_voxels)
    /\ UNCHANGED <<tsdf, observed_voxels, ingest, config, publisher, library,
                   camera_states_rotated_, vgain, call, scan, pushed, entry, prev, ncalls>>

\* The loop ends, the files are closed, the service returns true.
SaveViewingReturn ==
    /\ pc = "save"
    /\ interesting_voxels = <<>>
    /\ pc' = "idle"
    /\ call' = NoCall
    /\ UNCHANGED <<tsdf, interesting_voxels, observed_voxels, ingest, config, publisher,
                   library, camera_states_rotated_, vgain, scan, pushed, entry, prev,
                   ncalls>>

\* A server that may listen to the freespace topic and may have a finite
\* max_block_distance_from_body.
RemovalInit ==
    /\ use_freespace_pointcloud_ \in BOOLEAN
    /\ max_block_distance_from_body_ \in {0, kMaxFloat}
    /\ freespace_pointcloud_queue_ = <<>>
    /\ last_msg_time_freespace_ptcloud_ = 0
    /\ tsdf = EmptyLayer
    /\ interesting_voxels = <<>>
    /\ observed_voxels = <<>>
    /\ pointcloud_queue_ = <<>>
    /\ last_msg_time_ptcloud_ = 0
    /\ min_time_between_msgs_ = 0
    /\ accepted = << >>
    /\ processed = <<>>
    /\ camera_param = CameraParam(1)
    /\ frustum_endpoints_B = InitializeFrustum(1)
    /\ decay_distance_ = 0
    /\ decay_lambda_ = 1
    /\ area_factor_ = 1
    /\ camera_states_ = ForwardDynamics
    /\ action_sequences_ = ActionLibrary
    /\ camera_states_rotated_ = ZeroStates
    /\ vgain = ZeroGain
    /\ pc = "idle"
    /\ call = NoCall
    /\ scan = NoScan
    /\ pushed = ZeroPushed
    /\ entry = EmptyLayer
    /\ prev = NoPrev
    /\ ncalls = 0
    /\ MapPublishingOff

RemovalNext ==
    \/ InsertInterestingCloud
    \/ InsertFreespacePointcloud
    \/ ClearMapCallback
    \/ SaveViewingDistanceCallback
    \/ SaveViewingStep
    \/ SaveViewingNull
    \/ SaveViewingReturn

RemovalSpec == RemovalInit /\ [][RemovalNext]_vars

\* ------------------------------------------------- the baseline, repeated
\* The server takes a pointcloud and is then asked for the baseline up to
\* MaxCalls times, for any robot poses, on the map as it is.  prev is history:
\* the request and response of the baseline call before, and the frontier it
\* found.
RepeatedBaseline == BaselineEntry(TRUE, prev)

BaselineReturn ==
    /\ pc = "ret"
    /\ call.kind = "baseline"
    /\ prev' = [valid |-> TRUE, robot_pose |-> call.robot_pose,
                info_gain |-> call.info_gain]
    /\ call' = NoCall
    /\ entry' = EmptyLayer
    /\ pc' = "idle"
    /\ UNCHANGED <<tsdf, interesting_voxels, observed_voxels, ingest, config, publisher,
                   library, camera_states_rotated_, vgain, scan, pushed, ncalls>>

BaselineNext ==
    \/ InsertPointcloudWithInterestingness
    \/ RepeatedBaseline
    \/ BaselineNextPose
    \/ ScanStep
    \/ ScanReturn
    \/ DrainStep
    \/ DrainDone
    \/ BaselineRowEnd
    \/ BaselineDone
    \/ BaselineReturn

BaselineSpec == Init /\ [][BaselineNext]_vars

\* ------------------------------------------------ the library builder
\* The three nested loops of the constructor that fill the trajectory library,
\* one row per iteration of the innermost, for a library of n.x forward
\* velocities, n.z vertical angles and n.yaw yaw angles (the build's constants
\* are 1, 8 and 32).  call holds the loop indices; call.rows is history: the
\* idx_seq of every iteration so far.

\* A row index that strides the vertical angle by the number of vertical angles.
IdxSeqVelZStride(idx1, idx2, idx3, n) == idx1 * n.yaw * n.z + idx2 * n.z + idx3

\* idx_seq = idx1 * kNumYaw_ * kNumVelZ_ + idx2 * kNumYaw_ + idx3
IdxSeq(idx1, idx2, idx3, n) == idx1 * n.yaw * n.z + idx2 * n.yaw + idx3

\* The action written for yaw index idx3 of n.yaw at every timestep.
RowAction(idx3, n) == [vel |-> 1, steer |-> Sign(2 * idx3 - (n.yaw - 1))]

\* The (position, yaw) record the forward simulation leaves at timestep j.
RowState(idx3, n, j) ==
    LET action == RowAction(idx3, n)
        s      == (action.vel * (j + 1)) \div 4
    IN  [pos |-> <<s, action.steer * s>>, yaw |-> 0]

LibrarySizes == [x : 1 .. MaxVelX, z : 1 .. MaxVelZ, yaw : 2 .. MaxYaw]

LibraryInit ==
    /\ \E n \in LibrarySizes :
         /\ call = [kind |-> "build", n |-> n, idx1 |-> 0, idx2 |-> 0, idx3 |-> 0,
                    rows |-> <<>>]
         /\ camera_states_ =
              [idx_seq \in 0 .. n.x * n.z * n.yaw - 1 |-> [j \in Timesteps |-> ZeroState]]
         /\ action_sequences_ =
              [idx_seq \in 0 .. n.x * n.z * n.yaw - 1 |-> [j \in Timesteps |-> ZeroAction]]
    /\ pc = "build"
    /\ camera_states_rotated_ = ZeroStates
    /\ tsdf = EmptyLayer
    /\ interesting_voxels = <<>>
    /\ observed_voxels = <<>>
    /\ pointcloud_queue_ = <<>>
    /\ last_msg_time_ptcloud_ = 0
    /\ min_time_between_msgs_ = 0
    /\ accepted = <<>>
    /\ processed = <<>>
    /\ FreespaceOff
    /\ camera_param = CameraParam(1)
    /\ frustum_endpoints_B = InitializeFrustum(1)
    /\ decay_distance_ = 0
    /\ decay_lambda_ = 1
    /\ area_factor_ = 1
    /\ vgain = ZeroGain
    /\ scan = NoScan
    /\ pushed = ZeroPushed
    /\ entry = tsdf
    /\ prev = NoPrev
    /\ ncalls = 0
    /\ MapPublishingOff

LibraryFrame ==
    UNCHANGED <<tsdf, interesting_voxels, observed_voxels, ingest, config, publisher,
                camera_states_rotated_, vgain, scan, pushed, entry, prev, ncalls>>

\* One iteration of the idx3 loop: the whole j loop for row idx_seq.
BuildRow ==
    /\ pc = "build"
    /\ call.idx1 < call.n.x
    /\ LET n == call.n
           idx_seq == IdxSeq(call.idx1, call.idx2, call.idx3, n)
           last3 == call.idx3 + 1 = n.yaw
           last2 == call.idx2 + 1 = n.z
       IN  /\ idx_seq \in DOMAIN camera_states_
           /\ action_sequences_' =
                [action_sequences_ EXCEPT ![idx_seq] =
                    [j \in Timesteps |-> RowAction(call.idx3, n)]]
           /\ camera_states_' =
                [camera_states_ EXCEPT ![idx_seq] =
                    [j \in Timesteps |->
                        [@[j] EXCEPT !.pos = RowState(call.idx3, n, j).pos,
                                     !.yaw = RowState(call.idx3, n, j).yaw]]]
           /\ call' = [call EXCEPT
                         !.rows = Append(@, idx_seq),
                         !.idx3 = IF last3 THEN 0 ELSE @ + 1,
                         !.idx2 = IF ~last3 THEN @ ELSE IF last2 THEN 0 ELSE @ + 1,
                         !.idx1 = IF last3 /\ last2 THEN @ + 1 ELSE @]
    /\ UNCHANGED pc
    /\ LibraryFrame

\* The idx1 loop ends.
BuildDone ==
    /\ pc = "build"
    /\ call.idx1 >= call.n.x
    /\ pc' = "idle"
    /\ UNCHANGED <<call, library>>
    /\ LibraryFrame

LibraryNext == BuildRow \/ BuildDone

LibrarySpec == LibraryInit /\ [][LibraryNext]_vars

\* ------------------------------------------------ the server from its start
\* The members as their initialisers leave them, before the constructor body
\* runs, for a horizontal field of view from -1 to MaxWidth and a horizontal
\* resolution of 0 or 1 (one ray high).
StartupInit ==
    /\ \E fov \in (-1 .. MaxWidth) \X {1}, resolution \in {0, 1} \X {1} :
         camera_param = SensorParams(fov, resolution)
    /\ frustum_endpoints_B = <<>>
    /\ tsdf = EmptyLayer
    /\ interesting_voxels = <<>>
    /\ observed_voxels = <<>>
    /\ pointcloud_queue_ = <<>>
    /\ last_msg_time_ptcloud_ = 0
    /\ min_time_between_msgs_ = 0
    /\ accepted = <<>>
    /\ processed = <<>>
    /\ FreespaceOff
    /\ decay_distance_ = MaxDecayDistance
    /\ decay_lambda_ = 1
    /\ area_factor_ = 1
    /\ camera_states_ = ZeroLibrary
    /\ action_sequences_ = ZeroActions
    /\ camera_states_rotated_ = ZeroStates
    /\ vgain = ZeroGain
    /\ pc = "construct"
    /\ call = NoCall
    /\ scan = NoScan
    /\ pushed = ZeroPushed
    /\ entry = EmptyLayer
    /\ prev = NoPrev
    /\ ncalls = 0
    /\ MapPublishingOff

\* TsdfServer::TsdfServer: camera_param.initialize(), the library build, and
\* the services are advertised.  Nothing in it tests the configuration.
Construct ==
    /\ pc = "construct"
    /\ camera_param' = Initialize(camera_param)
    /\ frustum_endpoints_B' = Slice(camera_param'.frustum_endpoints)
    /\ camera_states_' = ForwardDynamics
    /\ action_sequences_' = ActionLibrary
    /\ pc' = "idle"
    /\ UNCHANGED <<tsdf, interesting_voxels, observed_voxels, ingest, publisher,
                   min_time_between_msgs_, use_freespace_pointcloud_,
                   max_block_distance_from_body_, decay_distance_,
                   decay_lambda_, area_factor_, camera_states_rotated_, vgain, call,
                   scan, pushed, entry, prev, ncalls>>

StartupNext ==
    \/ Construct
    \/ InsertPointcloudWithInterestingness
    \/ BaselineInfoGainCallback
    \/ BaselineNextPose
    \/ ScanStep
    \/ ScanReturn
    \/ DrainStep
    \/ DrainDone
    \/ BaselineRowEnd
    \/ BaselineDone
    \/ Return

StartupSpec == StartupInit /\ [][StartupNext]_vars

\* =============================================================== properties
\* getScanStatus has traversed every ray and is about to return.
ScanDone == pc = "scan" /\ scan.i > Len(scan.multiray_endpoints)

\* The class of the voxel at position k of ray r of the scan in progress.
ClassAt(r, k) == Classify(VoxelAt(tsdf, ScanRay(r)[k]))

FlaggedVoxels == {i \in Grid : tsdf[i].is_observed}

Counted(g) == g.num_unknown_voxels + g.num_free_voxels + g.num_occupied_voxels

\* interestingness * exp(-area_factor_ * z2) of voxel i seen from origin,
\* nothing for a Free or an absent voxel.
Contribution(i, origin) ==
    IF HasVoxel(tsdf, i) /\ Classify(tsdf[i]) # "Free"
    THEN tsdf[i].interestingness * Decay(SqDist(i, origin))
    ELSE 0

RECURSIVE ContributionOver(_, _)
ContributionOver(S, origin) ==
    IF S = {} THEN 0
    ELSE LET i == CHOOSE i \in S : TRUE
         IN  Contribution(i, origin) + ContributionOver(S \ {i}, origin)

\* ----------------------------------------------------------------- C1
\* C1: in getScanStatus every ray ends at the first Occupied voxel of its
\* raycast sequence: no position of a ray is traversed when an earlier position
\* of that ray holds an Occupied voxel; and when the call is over and a ray's
\* first voxel is Occupied, the occupied count is at least one.
C1_RayEndsAtOccupied ==
    pc = "scan" =>
        /\ \A v \in scan.visited :
             \A k \in 1 .. v[2] - 1 : ClassAt(v[1], k) # "Occupied"
        /\ ScanDone /\ (\E r \in 1 .. Len(scan.multiray_endpoints) :
                           ClassAt(r, 1) = "Occupied")
             => scan.num_occupied_voxels >= 1

\* C1 witness: a finished scan whose first ray starts in an Occupied voxel and
\* has a second position, which was not traversed.
C1_Witness ==
    /\ ScanDone
    /\ ClassAt(1, 1) = "Occupied"
    /\ Len(ScanRay(1)) > 1
    /\ ScanRay(1)[2] \in Grid
    /\ <<1, 1>> \in scan.visited
    /\ <<1, 2>> \notin scan.visited
    /\ scan.num_occupied_voxels = 1

\* ----------------------------------------------------------------- C2
\* Position m of the single ray holds an Occupied voxel and every position
\* before it holds an Unknown one (absent, or with weight below epsilon).
UnknownThenOccupied(m) ==
    /\ m \in 1 .. Len(ScanRay(1))
    /\ ClassAt(1, m) = "Occupied"
    /\ \A k \in 1 .. m - 1 : ClassAt(1, k) = "Unknown"

RECURSIVE RayContribution(_)
RayContribution(m) ==
    IF m = 0 THEN 0
    ELSE RayContribution(m - 1) + Contribution(ScanRay(1)[m], scan.pos)

\* C2 as stated: a single ray through N Unknown voxels, absent or not, and
\* then an Occupied one returns N unknown, 0 free, 1 occupied and the summed
\* decayed interestingness of the N + 1 voxels.
C2_CountsEveryUnknown ==
    ScanDone /\ Len(scan.multiray_endpoints) = 1 =>
        \A m \in 1 .. Len(ScanRay(1)) :
            UnknownThenOccupied(m) =>
                /\ scan.num_unknown_voxels = m - 1
                /\ scan.num_free_voxels = 0
                /\ scan.num_occupied_voxels = 1
                /\ scan.interestingness = RayContribution(m)

\* C2 amended: a single ray through N Unknown voxels and then an Occupied one
\* returns as its unknown count the number of those N voxels that are
\* allocated (an absent voxel is traversed but not counted), 0 free,
\* 1 occupied, and the summed decayed interestingness of the allocated voxels.
C2_CountsAllocatedUnknown ==
    ScanDone /\ Len(scan.multiray_endpoints) = 1 =>
        \A m \in 1 .. Len(ScanRay(1)) :
            UnknownThenOccupied(m) =>
                /\ scan.num_unknown_voxels =
                     Cardinality({k \in 1 .. m - 1 : HasVoxel(tsdf, ScanRay(1)[k])})
                /\ scan.num_free_voxels = 0
                /\ scan.num_occupied_voxels = 1
                /\ scan.interestingness = RayContribution(m)

\* C2 witness: a finished single-ray scan through one allocated Unknown voxel
\* that carries interestingness and then an Occupied voxel that carries some.
C2_Witness ==
    /\ ScanDone
    /\ Len(scan.multiray_endpoints) = 1
    /\ UnknownThenOccupied(2)
    /\ HasVoxel(tsdf, ScanRay(1)[1])
    /\ tsdf[ScanRay(1)[1]].interestingness > 0
    /\ tsdf[ScanRay(1)[2]].interestingness > 0
    /\ scan.num_unknown_voxels = 1
    /\ scan.interestingness > 0

\* ----------------------------------------------------------------- C3
\* C3: throughout a getScanStatus call no voxel is flagged when it starts, and
\* the three counters sum to the number of distinct voxels flagged so far,
\* which is the length of observed_voxels; the gain is the sum of one
\* contribution per flagged voxel.
C3_CountedOnce ==
    pc = "scan" =>
        /\ scan.visited = {} => FlaggedVoxels = {}
        /\ Counted(scan) = Cardinality(FlaggedVoxels)
        /\ Len(observed_voxels) = Cardinality(FlaggedVoxels)
        /\ scan.interestingness = ContributionOver(FlaggedVoxels, scan.pos)

\* C3 witness: a finished scan of two rays that both traversed one allocated
\* voxel that carries interestingness.
C3_Witness ==
    /\ ScanDone
    /\ \E v \in scan.visited, w \in scan.visited :
         /\ v[1] # w[1]
         /\ ScanRay(v[1])[v[2]] = ScanRay(w[1])[w[2]]
         /\ HasVoxel(tsdf, ScanRay(v[1])[v[2]])
         /\ Contribution(ScanRay(v[1])[v[2]], scan.pos) > 0

\* ----------------------------------------------------------------- C4
\* C4: in both callbacks, whenever the loop is about to score a pose and
\* whenever getScanStatus starts, observed_voxels is empty and no voxel is
\* flagged is_observed.
C4_FlagsClearBetweenPoses ==
    pc = "loop" \/ (pc = "scan" /\ scan.visited = {}) =>
        observed_voxels = <<>> /\ FlaggedVoxels = {}

\* C4 witness: baselineInfoGainCallback is back in its loop after a pose whose
\* scan counted voxels.
C4_Witness ==
    /\ pc = "loop"
    /\ call.kind = "baseline"
    /\ Len(call.log) > 0
    /\ Counted(call.log[Len(call.log)].vgain) > 1

\* ----------------------------------------------------------------- C5
\* C5: within one callback, where the map is not modified between poses, two
\* evaluations of the same pose give the same gain and the same counts.
C5_SamePoseSameGain ==
    call.kind # "none" =>
        \A a \in DOMAIN call.log, b \in DOMAIN call.log :
            call.log[a].state = call.log[b].state =>
                call.log[a].vgain = call.log[b].vgain

\* C5 witness: calcInfoGainCallback has scored the same pose twice, with a
\* positive gain and more than one voxel counted.
C5_Witness ==
    /\ call.kind = "calc"
    /\ Len(call.log) = 2
    /\ call.log[1].state = call.log[2].state
    /\ call.log[2].vgain.gain > 0
    /\ Counted(call.log[2].vgain) > 1

\* ----------------------------------------------------------------- C6
\* Every voxel of the layer the callback started with still exists with the
\* same distance, weight and interestingness.
MapPreserved ==
    \A i \in Grid :
        entry[i].exists =>
            /\ tsdf[i].exists
            /\ tsdf[i].distance = entry[i].distance
            /\ tsdf[i].weight = entry[i].weight
            /\ tsdf[i].interestingness = entry[i].interestingness

\* C6 as stated: when calcInfoGainCallback or baselineInfoGainCallback
\* returns, every voxel that existed before the call still exists with the
\* same distance, weight and interestingness.
C6_NoPermanentMutation == pc = "ret" => MapPreserved

\* C6 amended: when baselineInfoGainCallback returns, every voxel that existed
\* before the call still exists with the same distance, weight and
\* interestingness; when calcInfoGainCallback returns, no voxel exists.
C6_BaselinePreservesCalcClears ==
    pc = "ret" =>
        /\ call.kind = "baseline" => MapPreserved
        /\ call.kind = "calc" => \A i \in Grid : ~tsdf[i].exists

\* C6 witness: baselineInfoGainCallback is returning on a map that holds
\* interesting voxels, having scored poses that counted voxels with a gain.
C6_Witness ==
    /\ pc = "ret"
    /\ call.kind = "baseline"
    /\ \E i \in Grid : entry[i].exists /\ entry[i].interestingness > 0
    /\ \E a \in DOMAIN call.log : call.log[a].vgain.gain > 0

\* ----------------------------------------------------------------- C7
\* C7: when calcInfoGainCallback returns, observed_voxels and
\* interesting_voxels are empty and no voxel is flagged is_observed or in_queue.
C7_TransientStateReset ==
    pc = "ret" /\ call.kind = "calc" =>
        /\ observed_voxels = <<>>
        /\ interesting_voxels = <<>>
        /\ \A i \in Grid : ~tsdf[i].is_observed /\ ~tsdf[i].in_queue

\* C7 witness: calcInfoGainCallback is returning from a request whose cloud
\* seeded a voxel, with the diffusion off, and whose pose counted voxels.
C7_Witness ==
    /\ pc = "ret"
    /\ call.kind = "calc"
    /\ decay_distance_ = 0
    /\ PassFilter(call.pcl) # <<>>
    /\ \E a \in DOMAIN call.log : Counted(call.log[a].vgain) > 1

\* ----------------------------------------------------------------- C8
\* C8 as stated: a calcInfoGainCallback that repeats the request of the
\* calcInfoGainCallback before it, with no callback between them, returns
\* the same info_gain.
C8_Idempotent ==
    pc = "ret" /\ call.kind = "calc" /\ prev.valid =>
        call.info_gain = prev.info_gain

\* C8 amended: when the first of the two calls started on an empty map, the
\* second starts on an empty map as well and returns the same info_gain.
C8_IdempotentFromEmptyMap ==
    pc = "ret" /\ call.kind = "calc" /\ prev.valid /\ prev.pristine =>
        call.pristine /\ call.info_gain = prev.info_gain

\* C8 witness: the second of two identical calls, the first from an empty
\* map, is returning a positive gain.
C8_Witness ==
    /\ pc = "ret"
    /\ call.kind = "calc"
    /\ prev.valid
    /\ prev.pristine
    /\ \E a \in DOMAIN call.info_gain : call.info_gain[a] > 0

\* ----------------------------------------------------------------- C9
\* C9: spreadInterestingness, once entered, reaches its return, and the
\* frontier is empty there.
C9_SpreadTerminates ==
    (pc = "spread") ~> (pc = "loop" /\ interesting_voxels = <<>>)

\* C9 witness: spreadInterestingness has returned after it carried
\* interestingness two hops away from the frontier.
C9_Witness ==
    /\ pc = "loop"
    /\ interesting_voxels = <<>>
    /\ \E i \in Grid : tsdf[i].interesting_distance = 2 /\ tsdf[i].interestingness > 0

\* ---------------------------------------------------------------- C10
Occurrences(queue, i) == Cardinality({n \in 1 .. Len(queue) : queue[n] = i})

C12_DistanceNeverIncreases ==
    [][pc = "spread" =>
         \A i \in Grid :
            /\ tsdf'[i].interesting_distance <= tsdf[i].interesting_distance
            /\ tsdf'[i].interesting_distance <= entry[i].interesting_distance
            /\ tsdf'[i].interesting_distance >= 0]_vars

\* C12 witness: the pass is over and has lowered one voxel from the voxel
\* default to 1 and another to 2.
C12_Witness ==
    /\ pc = "loop"
    /\ \E i, j \in Grid :
         /\ i # j
         /\ tsdf[i].interesting_distance = 1
         /\ tsdf[j].interesting_distance = 2
         /\ entry[i].interesting_distance = kSentinelDistance
         /\ entry[j].interesting_distance = kSentinelDistance

\* ---------------------------------------------------------------- C13
\* The voxels the pass wrote, and those together with the seeds it started from.
Diffused == {i \in Grid : /\ tsdf[i].exists
                          /\ tsdf[i].interesting_distance > 0
                          /\ tsdf[i].interesting_distance < kSentinelDistance}
Reached == Diffused \cup {i \in Grid : entry[i].in_queue}
Monotone(S) ==
    \A u, v \in S :
       tsdf[u].interesting_distance <= tsdf[v].interesting_distance
       => tsdf[u].interestingness >= tsdf[v].interestingness
SeedsAgree ==
    \A u, v \in Grid :
       (entry[u].in_queue /\ entry[v].in_queue)
       => entry[u].interestingness = entry[v].interestingness

\* C13 as stated: after a pass with decay_lambda_ = 0.5, interestingness is
\* non-increasing with interesting_distance over the voxels the pass wrote,
\* whatever the seeds hold.
C13_MonotoneAnySeeds == (pc = "loop" /\ decay_lambda_ = 1) => Monotone(Diffused)

\* C13 amended: after a pass whose seeds all hold the same interestingness,
\* interestingness is non-increasing with interesting_distance over the seeds
\* and the voxels the pass wrote.
C13_MonotoneEqualSeeds == (pc = "loop" /\ SeedsAgree) => Monotone(Reached)

\* C13 witness: a pass from two seeds of equal interestingness with
\* decay_lambda_ = 0.5 has reached voxels one and two hops away.
C13_Witness ==
    /\ pc = "loop"
    /\ decay_lambda_ = 1
    /\ SeedsAgree
    /\ Cardinality({i \in Grid : entry[i].in_queue}) = 2
    /\ \E i, j \in Grid :
         /\ tsdf[i].interesting_distance = 1
         /\ tsdf[j].interesting_distance = 2
         /\ tsdf[i].interestingness > tsdf[j].interestingness
         /\ tsdf[j].interestingness > 0

\* ---------------------------------------------------------------- C14
\* The number of neighbour steps between two voxels of the grid.
Hops(i, j) == Abs(i[1] - j[1]) + Abs(i[2] - j[2])

\* The pass started from the single seed s, at interestingness 1.0, among
\* existing Unknown voxels, with decay_lambda_ = 0.5 and decay_distance_ = 3.
SingleSeed(s) ==
    /\ decay_lambda_ = 1
    /\ decay_distance_ = 3
    /\ \A i \in Grid : entry[i].exists
    /\ entry[s].in_queue
    /\ entry[s].interestingness = kPassFilterMax
    /\ \A i \in Grid \ {s} : ~entry[i].in_queue /\ checkUnknownStatus(entry[i])
Rings(s) ==
    \A i \in Grid :
       /\ Hops(i, s) = 1 <=> tsdf[i].interestingness = kPassFilterMax \div 2
       /\ Hops(i, s) = 2 <=> tsdf[i].interestingness = kPassFilterMax \div 4
       /\ Hops(i, s) \in {1, 2} => tsdf[i].interesting_distance = Hops(i, s)

\* C14 as stated: after the pass exactly the seed's immediate neighbours hold
\* 0.5, the second ring holds 0.25, and no voxel three hops away has had its
\* interestingness or interesting_distance written.
C14_ThirdRingUntouched ==
    \A s \in Grid :
       (pc = "loop" /\ SingleSeed(s))
       => /\ Rings(s)
          /\ \A i \in Grid :
                Hops(i, s) = 3 =>
                   /\ tsdf[i].interestingness = entry[i].interestingness
                   /\ tsdf[i].interesting_distance = entry[i].interesting_distance

\* C14 amended: after the pass exactly the seed's immediate neighbours hold
\* 0.5 and the second ring holds 0.25; every voxel three hops away holds 0.125
\* at interesting_distance 3 and was never pushed; voxels farther away are
\* unchanged.
C14_ThirdRingWrittenNotPushed ==
    \A s \in Grid :
       (pc = "loop" /\ SingleSeed(s))
       => /\ Rings(s)
          /\ \A i \in Grid :
                /\ Hops(i, s) = 3 =>
                     /\ tsdf[i].interestingness = kPassFilterMax \div 8
                     /\ tsdf[i].interesting_distance = 3
                     /\ ~tsdf[i].in_queue
                     /\ pushed[i] = 0
                /\ Hops(i, s) > 3 => tsdf[i] = entry[i]

\* C14 witness: such a pass has ended with a voxel in each of the three rings.
C14_Witness ==
    /\ pc = "loop"
    /\ \E s \in Grid :
         /\ SingleSeed(s)
         /\ \A h \in 1 .. 3 : \E i \in Grid : Hops(i, s) = h

\* ---------------------------------------------------------------- C15
\* C15: the pass changes nothing of a voxel that was absent, Free or Occupied
\* when it started, and leaves every voxel's distance and weight (and
\* is_observed) alone.
C15_OnlyUnknownNeighboursChange ==
    \A i \in Grid :
       /\ tsdf[i].exists = entry[i].exists
       /\ tsdf[i].distance = entry[i].distance
       /\ tsdf[i].weight = entry[i].weight
       /\ tsdf[i].is_observed = entry[i].is_observed
       /\ ~(entry[i].exists /\ checkUnknownStatus(entry[i])) => tsdf[i] = entry[i]

\* C15 witness: the pass is over; its seed had an absent neighbour, a Free
\* neighbour and an Unknown neighbour, and only the Unknown one was written.
C15_Witness ==
    /\ pc = "loop"
    /\ \E s, a, f, u \in Grid :
         /\ entry[s].in_queue
         /\ \A n \in {a, f, u} : \E k \in 1 .. Len(kNeighborOffsets) : Neighbors(s)[k] = n
         /\ ~entry[a].exists
         /\ Classify(entry[f]) = "Free"
         /\ entry[u].exists /\ checkUnknownStatus(entry[u])
         /\ tsdf[u].interesting_distance = 1
         /\ tsdf[u] # entry[u]

\* ---------------------------------------------------------------- C16
\* The phases a calcInfoGainCallback call has entered when it has appended n
\* gains, if the phases run in the stated order.
PhasesInOrder(n, cleared) ==
    <<"ingest">> \o (IF decay_distance_ > 0 THEN <<"spread">> ELSE <<>>)
                 \o [k \in 1 .. n |-> "gain"]
                 \o (IF cleared THEN <<"clear">> ELSE <<>>)

\* C16 as stated, its third clause: while calcInfoGainCallback scores a pose
\* the diffusion frontier is empty.
C16_FrontierEmptyWhenScoring ==
    (call.kind = "calc" /\ pc \in {"loop", "scan", "drain"}) => interesting_voxels = <<>>

\* C16 amended: calcInfoGainCallback ingests, diffuses if and only if
\* decay_distance_ > 0, scores the poses and calls clear() exactly once, last,
\* after every info_gain value is appended; the frontier is empty before the
\* first pose is scored when decay_distance_ > 0 (the diffusion drained it),
\* and empty after clear() in every case.
C16_PhaseOrder ==
    call.kind = "calc" =>
       /\ call.trace = PhasesInOrder(Len(call.info_gain), pc = "ret")
       /\ pc = "spread" => decay_distance_ > 0 /\ call.info_gain = <<>> /\ call.idx = 0
       /\ (pc \in {"loop", "scan", "drain"} /\ decay_distance_ > 0)
             => interesting_voxels = <<>>
       /\ pc = "ret" => /\ call.idx = kStateSize * Len(call.info_gain)
                        /\ interesting_voxels = <<>>
                        /\ tsdf = EmptyLayer

\* C16 witness: a call with decay_distance_ > 0 has ingested a seed, diffused,
\* scored two poses and cleared.
C16_Witness ==
    /\ pc = "ret"
    /\ call.kind = "calc"
    /\ call.trace = <<"ingest", "spread", "gain", "gain", "clear">>
    /\ \E n \in 1 .. Len(call.pcl) : call.pcl[n].intensity = kPassFilterMax

\* ---------------------------------------------------------------- C17
\* C17: calcInfoGainCallback returns floor(len(camera_poses) / 6) gains, and
\* entry k (from 0) is the gain computed for the pose read from
\* camera_poses[6k .. 6k+5]; trailing values are not read.
C17_OneGainPerPose ==
    (pc = "ret" /\ call.kind = "calc") =>
       LET n == Len(call.camera_poses) \div 6
       IN  /\ Len(call.info_gain) = n
           /\ Len(call.log) = n
           /\ \A k \in 0 .. n - 1 :
                /\ call.log[k + 1].state =
                      [pos |-> <<call.camera_poses[6 * k + 1], call.camera_poses[6 * k + 2]>>,
                       yaw |-> call.camera_poses[6 * k + 6]]
                /\ call.info_gain[k + 1] = call.log[k + 1].vgain.gain

\* C17 witness: a request of two different poses and one trailing value has
\* returned two different gains.
C17_Witness ==
    /\ pc = "ret"
    /\ call.kind = "calc"
    /\ Len(call.camera_poses) = 13
    /\ Len(call.info_gain) = 2
    /\ call.info_gain[1] # call.info_gain[2]

\* ---------------------------------------------------------------- C18
\* The scored timesteps in the order the inner loop meets them.
ScoredOrder == <<2, 6, 10, 14>>

\* C18: baselineInfoGainCallback scores timesteps 2, 6, 10 and 14 of every
\* library row, in row order, each pose starting with all is_observed flags
\* clear, and returns one value per row: the sum of the row's four gains.
C18_OneSumPerRow ==
    call.kind = "baseline" =>
       /\ Len(call.info_gain) = (IF pc = "ret" THEN NumYaw * NumVelZ * kNumVelX_
                                 ELSE call.idx)
       /\ Len(call.log) <= 4 * (Len(call.info_gain) + 1)
       /\ \A n \in 1 .. Len(call.log) :
            LET row == (n - 1) \div 4
                j   == ScoredOrder[((n - 1) % 4) + 1]
            IN  call.log[n].state =
                   [pos |-> Add(Rot(call.robot_pose.yaw, ForwardDynamics[row][j].pos),
                                call.robot_pose.pos),
                    yaw |-> call.robot_pose.yaw + ForwardDynamics[row][j].yaw]
       /\ \A i \in 1 .. Len(call.info_gain) :
            /\ Len(call.log) >= 4 * i
            /\ call.info_gain[i] =
                  call.log[4 * i - 3].vgain.gain + call.log[4 * i - 2].vgain.gain
                + call.log[4 * i - 1].vgain.gain + call.log[4 * i].vgain.gain
       /\ (pc = "loop" \/ (pc = "scan" /\ scan.visited = {}))
             => \A i \in Grid : ~tsdf[i].is_observed

\* C18 witness: a call has returned with two rows of different, positive sums.
C18_Witness ==
    /\ pc = "ret"
    /\ call.kind = "baseline"
    /\ Len(call.info_gain) = NumYaw * NumVelZ * kNumVelX_
    /\ call.info_gain[1] > 0
    /\ call.info_gain[2] > 0
    /\ call.info_gain[1] # call.info_gain[2]

\* ---------------------------------------------------------------- C19
\* C19: the trajectory library holds what the constructor wrote in every
\* state, whatever calls have run; baselineInfoGainCallback writes every entry
\* of the working copy, so during and after a call the copy is the library
\* turned and moved by that call's robot pose, whatever it held before; no
\* other call writes the copy.
C19_LibraryReadOnly ==
    /\ camera_states_ = ForwardDynamics
    /\ action_sequences_ = ActionLibrary
    /\ call.kind = "baseline" =>
         \A idx \in Rows : \A j \in Timesteps :
            camera_states_rotated_[idx][j] =
               Add(Rot(call.robot_pose.yaw, ForwardDynamics[idx][j].pos),
                   call.robot_pose.pos)
    /\ (call.kind = "calc" \/ ncalls = 0) => camera_states_rotated_ = ZeroStates

\* C19 witness: a second baselineInfoGainCallback call found the working copy
\* of the first and has replaced every entry of it.
C19_Witness ==
    /\ call.kind = "baseline"
    /\ call.before # ZeroStates
    /\ \A idx \in Rows : \A j \in Timesteps :
          camera_states_rotated_[idx][j] # call.before[idx][j]

\* ---------------------------------------------------------------- C20
\* The number of iterations of for (d = -fov/2; d < fov/2; d += res).
Iterations(fov, res) == (fov + res - 1) \div res

\* C20: with a positive field of view and resolution, initialize() leaves
\* height >= 1 rows of width >= 1 endpoints each, height * width in all, where
\* height and width are the iteration counts of the vertical and horizontal
\* half-open loops, and the endpoint of row r, column c is that of the r-th
\* vertical and c-th horizontal angle.
C20_HeightTimesWidth ==
    LET p == camera_param
    IN  (p.frustum_endpoints # <<>> /\ p.resolution[1] > 0 /\ p.resolution[2] > 0) =>
           /\ p.height = Iterations(p.fov[2], p.resolution[2])
           /\ p.width = Iterations(p.fov[1], p.resolution[1])
           /\ p.height >= 1
           /\ p.width >= 1
           /\ Len(p.frustum_endpoints) = p.height * p.width
           /\ \A r \in 1 .. p.height : \A c \in 1 .. p.width :
                p.frustum_endpoints[(r - 1) * p.width + c] =
                   <<p.max_range,
                     p.max_range * Tan(-p.fov[1] + 2 * (c - 1) * p.resolution[1]),
                     p.max_range * Tan(-p.fov[2] + 2 * (r - 1) * p.resolution[2])>>

\* C20 witness: initialize() has run for a field of view that is not a
\* multiple of the resolution in one direction and is one in the other, and
\* has stored more than one row and more than one column.
C20_Witness ==
    /\ camera_param.fov = <<3, 2>>
    /\ camera_param.resolution = <<2, 1>>
    /\ camera_param.height = 2
    /\ camera_param.width = 2
    /\ Len(camera_param.frustum_endpoints) = 4

\* ---------------------------------------------------------------- C21
WellFormed(param) ==
    /\ param.fov[1] > 0 /\ param.fov[2] > 0
    /\ param.resolution[1] > 0 /\ param.resolution[2] > 0

C21_MalformedServedWithZeroGain ==
    /\ pc # "construct" =>
          /\ camera_param.fov[1] <= 0 <=> frustum_endpoints_B = <<>>
          /\ (camera_param.fov[1] > 0 /\ camera_param.resolution[1] <= 0) =>
                camera_param.width = Iterations(camera_param.fov[1], kDefaultResolution)
    /\ (call.kind = "baseline" /\ camera_param.fov[1] <= 0) =>
          /\ \A n \in 1 .. Len(call.log) :
                call.log[n].vgain = ZeroGain
          /\ \A i \in 1 .. Len(call.info_gain) : call.info_gain[i] = 0

\* C21 witness: a query has returned from a server built with a zero field
\* of view over a map that holds an interesting voxel.
C21_Witness ==
    /\ pc = "ret"
    /\ call.kind = "baseline"
    /\ camera_param.fov[1] = 0
    /\ \E i \in Grid : tsdf[i].interestingness > 0

\* ---------------------------------------------------------------- C22
\* What one iteration of the ray loop adds to the three counters.
ScanDelta ==
    <<scan'.num_unknown_voxels - scan.num_unknown_voxels,
      scan'.num_free_voxels - scan.num_free_voxels,
      scan'.num_occupied_voxels - scan.num_occupied_voxels>>

\* The voxel under the cursor of the scan.
UnderCursor == VoxelAt(tsdf, ScanRay(scan.i)[scan.k])

Scanning == pc = "scan" /\ scan.i <= Len(scan.multiray_endpoints)

\* The ray loop treats the voxel under the cursor as exactly one of three
\* classes, Occupied being decided by occupied(voxel): an absent voxel changes
\* no counter and lets the ray go on; a new voxel below the weight epsilon adds
\* one to the unknown counter only; a new voxel at or above it adds one to the
\* occupied counter only if occupied(voxel) and to the free counter only if
\* not; the ray ends at the voxel if and only if it is of weight at or above
\* the epsilon and occupied, or the last of the ray.
ClassifiedBy(occupied(_)) ==
    Scanning =>
    LET voxel == UnderCursor
        known == voxel.exists /\ voxel.weight >= kWeightEpsilon
        new   == voxel.exists /\ ~voxel.is_observed
    IN  /\ ScanDelta = IF ~new THEN <<0, 0, 0>>
                       ELSE IF ~known THEN <<1, 0, 0>>
                       ELSE IF occupied(voxel) THEN <<0, 0, 1>>
                       ELSE <<0, 1, 0>>
        /\ (scan'.i = scan.i + 1) <=>
              \/ known /\ occupied(voxel)
              \/ scan.k = Len(ScanRay(scan.i))

WithinVoxelSizeOfZero(voxel) ==
    /\ voxel.distance <= VoxelSize + kDistanceEpsilon
    /\ voxel.distance >= -(VoxelSize + kDistanceEpsilon)

AtOrBelowThreshold(voxel) == voxel.distance <= VoxelSize + kDistanceEpsilon

\* C22 as stated: the classification of the scan is total and exclusive;
\* absent or below the weight epsilon is Unknown, otherwise Occupied if the
\* distance is within one voxel size (and the 1e-6 margin) of zero, Free
\* otherwise.
C22_OccupiedWithinVoxelSizeOfZero == [][ClassifiedBy(WithinVoxelSizeOfZero)]_vars

\* C22 amended: the classification of the scan is total and exclusive; absent
\* or below the weight epsilon is Unknown, otherwise Occupied if the signed
\* distance is at most one voxel size plus 1e-6, however far below zero it is,
\* and Free if it is above.
C22_OccupiedAtOrBelowThreshold == [][ClassifiedBy(AtOrBelowThreshold)]_vars

\* C22 witness: a scan has counted a voxel of each class, the occupied one a
\* full truncation distance behind the surface.
C22_Witness ==
    /\ scan.active
    /\ scan.num_unknown_voxels >= 1
    /\ scan.num_free_voxels >= 1
    /\ scan.num_occupied_voxels = 1
    /\ \E i \in Grid :
         /\ tsdf[i].is_observed
         /\ tsdf[i].weight >= kWeightEpsilon
         /\ tsdf[i].distance = -kTruncationDistance
    /\ \A i \in Grid :
         tsdf[i].is_observed /\ tsdf[i].weight >= kWeightEpsilon /\ tsdf[i].distance <= 0
           => tsdf[i].distance = -kTruncationDistance

\* ---------------------------------------------------------------- C23
RECURSIVE RunScan(_)
RunScan(st) ==
    IF st.scan.i > Len(st.scan.multiray_endpoints) THEN st ELSE RunScan(ScanAdvance(st))

\* What the gain function returns for the pose on the layer, run alone.
StandAlone(layer, state) ==
    GainRecord(RunScan([scan |-> BeginScan(state), layer |-> layer, observed |-> <<>>]).scan)

Returned(q) == call.phase[q] \in {"drain", "done"}

\* C23: a query that ran with no step of the other query between its entry
\* and the end of its reset loop returns the counts and the gain it returns
\* alone on the map; only a query whose steps overlapped the other's can
\* return anything else (the witness below is such a query).
C23_SerializedAsAlone ==
    pc = "pair" =>
      \A q \in Queries :
         Returned(q) /\ call.result[q] # StandAlone(entry, call.pose[q])
           => call.overlapped[q]

\* C23 witness: the two queries overlapped and one of them returned counts
\* and a gain that differ from what it returns alone.
C23_Witness ==
    /\ pc = "pair"
    /\ \E q \in Queries :
         /\ call.phase[q] = "done"
         /\ call.phase[Other(q)] = "done"
         /\ call.overlapped[q]
         /\ Counted(call.result[q]) # Counted(StandAlone(entry, call.pose[q]))
         /\ call.result[q].gain # StandAlone(entry, call.pose[q]).gain

\* ---------------------------------------------------------------- C24
\* C24 as stated: a layer message published by a publishMap call before which
\* a new subscriber subscribed (and is still subscribed) is a full reset:
\* action kReset and all blocks.
C24_ResetForNewSubscriber ==
    tsdf_map_pub_.sent.published /\ tsdf_map_pub_.sent.joined # {}
      => tsdf_map_pub_.sent.action = "kReset" /\ ~tsdf_map_pub_.sent.only_updated

\* ---------------------------------------------------------------- C25
Last(seq) == seq[Len(seq)]

\* Consecutive accepted stamps are more than the minimum spacing apart.
Spaced(seq) ==
    \A n \in 1 .. Len(seq) - 1 : seq[n + 1] - seq[n] > min_time_between_msgs_

Increasing(seq) == \A n \in 1 .. Len(seq) - 1 : seq[n + 1] > seq[n]

IsSuffix(tail, queue) ==
    \E n \in 0 .. Len(queue) : tail = SubSeq(queue, n + 1, Len(queue))

\* The callback accepted its message.
Accepted == accepted' # accepted

\* C25 as stated: a message is accepted only if its stamp exceeds the last
\* accepted stamp by more than min_time_between_msgs_; the accepted stamps are
\* strictly increasing and consecutive ones more than the minimum apart; a
\* rejected message changes neither the queue nor last_msg_time_ptcloud_.
C25_RejectedLeavesQueue ==
    [][IF Accepted
       THEN /\ Last(accepted') - last_msg_time_ptcloud_ > min_time_between_msgs_
            /\ last_msg_time_ptcloud_' = Last(accepted')
            /\ Spaced(accepted')
            /\ Increasing(accepted')
       ELSE /\ pointcloud_queue_' = pointcloud_queue_
            /\ last_msg_time_ptcloud_' = last_msg_time_ptcloud_]_vars

\* C25 amended: a message is accepted only if its stamp exceeds the last
\* accepted stamp by more than min_time_between_msgs_; consecutive accepted
\* stamps are more than the minimum apart, and strictly increasing when the
\* minimum is not negative; a rejected message is not enqueued and leaves
\* last_msg_time_ptcloud_ alone, but its callback still takes waiting messages
\* off the front of the queue.
C25_RejectedNotEnqueued ==
    [][IF Accepted
       THEN /\ Last(accepted') - last_msg_time_ptcloud_ > min_time_between_msgs_
            /\ last_msg_time_ptcloud_' = Last(accepted')
            /\ Spaced(accepted')
            /\ min_time_between_msgs_ >= 0 => Increasing(accepted')
       ELSE /\ IsSuffix(pointcloud_queue_', pointcloud_queue_)
            /\ last_msg_time_ptcloud_' = last_msg_time_ptcloud_]_vars

\* C25 witness: with a minimum spacing of 1, the stamps 2 and 4 were accepted
\* (1 and 3 could not be) and the message stamped 4 still waits for its
\* transform.
C25_Witness ==
    /\ min_time_between_msgs_ = 1
    /\ accepted = <<2, MaxThrottleStamp>>
    /\ last_msg_time_ptcloud_ = MaxThrottleStamp
    /\ Len(pointcloud_queue_) = 1
    /\ pointcloud_queue_[1].stamp = MaxThrottleStamp

\* ---------------------------------------------------------------- C26
\* Two poses have been scored and the caller left out the reset loop between
\* them.
ScoredTwiceNoReset ==
    /\ call.kind = "calc"
    /\ Len(call.log) >= 2
    /\ Len(call.trace) >= 4
    /\ SubSeq(call.trace, 1, 4) = <<"ingest", "gain", "skip", "gain">>

\* The voxels the gain function flags for the pose on the layer, run alone.
SeenAlone(layer, state) ==
    LET st == RunScan([scan |-> BeginScan(state), layer |-> layer, observed |-> <<>>])
    IN  {st.observed[n] : n \in 1 .. Len(st.observed)}

\* C26: when a pose is scored after another with no reset in between, no
\* voxel flagged by the first scoring is counted by the second: the second
\* counts exactly the voxels it flags alone that the first did not flag;
\* scoring the same pose twice gives unknown = free = occupied = 0 and gain 0
\* the second time.
C26_SecondScoreSkipsFlagged ==
    ScoredTwiceNoReset =>
      LET first  == call.log[1]
          second == call.log[2]
      IN  /\ Counted(second.vgain) =
               Cardinality(SeenAlone(entry, second.state) \ SeenAlone(entry, first.state))
          /\ first.state = second.state => second.vgain = ZeroGain

\* C26 witness: the same pose was scored twice with no reset; the first
\* scoring counted several voxels and had a positive gain, the second
\* returned zeros.
C26_Witness ==
    /\ ScoredTwiceNoReset
    /\ pc = "drain"
    /\ call.log[1].state = call.log[2].state
    /\ Counted(call.log[1].vgain) > 1
    /\ call.log[1].vgain.gain > 0
    /\ call.log[2].vgain = ZeroGain

\* Two different poses with a voxel in common, no reset: the second counts
\* fewer voxels than it does alone.
C26_WitnessCommonVoxel ==
    /\ ScoredTwiceNoReset
    /\ pc = "drain"
    /\ call.log[1].state # call.log[2].state
    /\ Counted(call.log[2].vgain) > 0
    /\ Counted(call.log[2].vgain) < Counted(StandAlone(entry, call.log[2].state))

\* ---------------------------------------------------------------- C27
\* The voxel under the cursor is Free: at or above the weight epsilon and
\* farther than the distance threshold.
FreeUnderCursor ==
    /\ UnderCursor.exists
    /\ UnderCursor.weight >= kWeightEpsilon
    /\ UnderCursor.distance > VoxelSize + kDistanceEpsilon

\* The indices the scoring that just returned has pushed.
PushedByScoring(count) ==
    {observed_voxels[n] : n \in Len(observed_voxels) - count + 1 .. Len(observed_voxels)}

\* Decayed interestingness of the voxels of S that are not Free.
RECURSIVE SumUnknownAndOccupied(_, _)
SumUnknownAndOccupied(S, origin) ==
    IF S = {} THEN 0
    ELSE LET i == CHOOSE i \in S : TRUE
             voxel == tsdf[i]
             free == voxel.weight >= kWeightEpsilon
                       /\ voxel.distance > VoxelSize + kDistanceEpsilon
         IN  (IF free THEN 0
              ELSE voxel.interestingness * Decay(SqDist(i, origin)))
             + SumUnknownAndOccupied(S \ {i}, origin)

\* C27: a Free voxel under the cursor is flagged, pushed and counted in the
\* free counter exactly if it was not observed, adds nothing to the gain and
\* does not end the ray; and the gain the function returns is the sum of the
\* decayed interestingness of the Unknown and Occupied voxels it has flagged.
C27_FreeCountedNotScored ==
    [][/\ Scanning /\ FreeUnderCursor =>
            LET global_index == ScanRay(scan.i)[scan.k]
                new == ~UnderCursor.is_observed
            IN  /\ tsdf'[global_index].is_observed
                /\ observed_voxels' = IF new THEN Append(observed_voxels, global_index)
                                      ELSE observed_voxels
                /\ ScanDelta = IF new THEN <<0, 1, 0>> ELSE <<0, 0, 0>>
                /\ scan'.interestingness = scan.interestingness
                /\ scan.k < Len(ScanRay(scan.i)) => scan'.i = scan.i /\ scan'.k = scan.k + 1
       /\ pc = "scan" /\ pc' = "drain" =>
            vgain'.gain = SumUnknownAndOccupied(PushedByScoring(Counted(vgain')), scan.pos)]_vars

\* C27 witness: a ray from <<0, 0>> went through an interesting Free voxel at
\* <<1, 0>> and ended at an interesting Occupied voxel behind it; both are
\* counted and the gain is the Occupied voxel's share alone.
C27_Witness ==
    /\ pc = "drain"
    /\ call.kind = "calc"
    /\ Len(call.log) = 1
    /\ call.log[1].state = [pos |-> <<0, 0>>, yaw |-> 0]
    /\ tsdf[<<1, 0>>].is_observed
    /\ tsdf[<<1, 0>>].weight >= kWeightEpsilon
    /\ tsdf[<<1, 0>>].distance > VoxelSize + kDistanceEpsilon
    /\ tsdf[<<1, 0>>].interestingness > 0
    /\ tsdf[<<2, 0>>].is_observed
    /\ tsdf[<<2, 0>>].weight >= kWeightEpsilon
    /\ tsdf[<<2, 0>>].distance <= 0
    /\ vgain.num_free_voxels = 1
    /\ vgain.num_occupied_voxels = 1
    /\ vgain.gain = tsdf[<<2, 0>>].interestingness * Decay(SqDist(<<2, 0>>, <<0, 0>>))
    /\ vgain.gain > 0

\* ---------------------------------------------------------------- C28
\* The queue holds the flagged voxels' indices, each once, and nothing else.
QueueIsFlagged(layer, queue) ==
    /\ \A n \in 1 .. Len(queue) : queue[n] \in Grid
    /\ \A i \in Grid :
         Cardinality({n \in 1 .. Len(queue) : queue[n] = i})
           = IF layer[i].is_observed THEN 1 ELSE 0

\* C28: after every step of every sequence of scorings and reset loops that
\* starts with all flags clear, observed_voxels holds exactly the indices of
\* the flagged voxels, each once; and a step of getScanStatus clears no flag
\* and pops nothing: the queue only grows at its back.
C28_QueueHoldsFlagged ==
    [][/\ QueueIsFlagged(tsdf', observed_voxels')
       /\ Scanning =>
            /\ \A i \in Grid : tsdf[i].is_observed => tsdf'[i].is_observed
            /\ Len(observed_voxels') >= Len(observed_voxels)
            /\ SubSeq(observed_voxels', 1, Len(observed_voxels)) = observed_voxels]_vars

\* C28 witness: in the middle of the reset loop after two scorings with no
\* reset between them, one voxel of the first scoring is already clear and
\* popped, others are still flagged and queued.
C28_Witness ==
    /\ ScoredTwiceNoReset
    /\ pc = "drain"
    /\ Len(observed_voxels) >= 2
    /\ Counted(call.log[2].vgain) >= 1
    /\ \E i \in SeenAlone(entry, call.log[1].state) : ~tsdf[i].is_observed
    /\ QueueIsFlagged(tsdf, observed_voxels)

\* ---------------------------------------------------------------- C29
\* C29: no step of baselineInfoGainCallback ingests, diffuses or clears: the
\* frontier, the push counts and the input queue stay as they are and a voxel
\* changes in its is_observed flag at most; when the callback returns the
\* layer is the layer it found, flags included, observed_voxels is empty; and
\* a call made right after another with the same robot pose returns the same
\* response.
C29_BaselineLeavesMap ==
    [][call'.kind = "baseline" =>
         /\ interesting_voxels' = interesting_voxels
         /\ pushed' = pushed
         /\ pointcloud_queue_' = pointcloud_queue_
         /\ \A i \in Grid : [tsdf'[i] EXCEPT !.is_observed = FALSE]
                                = [tsdf[i] EXCEPT !.is_observed = FALSE]
         /\ pc' = "ret" =>
              /\ tsdf' = entry'
              /\ observed_voxels' = <<>>
              /\ Len(call'.info_gain) = NumSequences
              /\ prev'.valid /\ prev'.robot_pose = call'.robot_pose
                   => call'.info_gain = prev'.info_gain]_vars

\* C29 witness: the baseline returns for the second time in a row for the
\* same robot pose, on a map with a voxel on the diffusion frontier, with the
\* same response as before; its rows' gains differ and one is positive.
C29_Witness ==
    /\ pc = "ret"
    /\ call.kind = "baseline"
    /\ prev.valid
    /\ prev.robot_pose = call.robot_pose
    /\ call.info_gain = prev.info_gain
    /\ \E a, b \in DOMAIN call.info_gain :
         call.info_gain[a] > 0 /\ call.info_gain[a] # call.info_gain[b]
    /\ interesting_voxels # <<>>
    /\ \E i \in Grid : tsdf[i].in_queue
    /\ tsdf = entry

\* ---------------------------------------------------------------- C30
\* The iterations that wrote row idx_seq.
WritesOf(idx_seq) == {k \in 1 .. Len(call.rows) : call.rows[k] = idx_seq}

\* C30: every iteration of the builder writes a row of the library no earlier
\* iteration wrote; when the loops are over every row 0 .. N-1,
\* N = kNumYaw_ * kNumVelZ_ * kNumVelX_, has been written exactly once, by
\* the iteration whose yaw index is idx_seq modulo kNumYaw_, and holds
\* kNumTimestep (position, yaw) records with roll and pitch zero; for the
\* sizes of the server model the result is the library the server uses.
C30_EveryRowOnce ==
    call.kind = "build" =>
      LET n == call.n
          N == n.yaw * n.z * n.x
      IN  /\ DOMAIN camera_states_ = 0 .. N - 1
          /\ \A idx_seq \in 0 .. N - 1 :
               /\ Cardinality(WritesOf(idx_seq)) <= 1
               /\ DOMAIN camera_states_[idx_seq] = 0 .. kNumTimestep - 1
               /\ \A j \in 0 .. kNumTimestep - 1 :
                    /\ camera_states_[idx_seq][j].roll = 0
                    /\ camera_states_[idx_seq][j].pitch = 0
          /\ pc = "idle" =>
               /\ Len(call.rows) = N
               /\ \A idx_seq \in 0 .. N - 1 :
                    /\ Cardinality(WritesOf(idx_seq)) = 1
                    /\ \A j \in 0 .. kNumTimestep - 1 :
                         /\ camera_states_[idx_seq][j].pos = RowState(idx_seq % n.yaw, n, j).pos
                         /\ camera_states_[idx_seq][j].yaw = RowState(idx_seq % n.yaw, n, j).yaw
                         /\ action_sequences_[idx_seq][j] = RowAction(idx_seq % n.yaw, n)
               /\ n = [x |-> kNumVelX_, z |-> NumVelZ, yaw |-> NumYaw] =>
                    camera_states_ = ForwardDynamics /\ action_sequences_ = ActionLibrary

\* C30 witness: the builder has finished the largest library, MaxVelX forward
\* velocities by MaxVelZ vertical angles by MaxYaw yaw angles; the rows of
\* the first and the last yaw angle differ and the last row is filled.
C30_Witness ==
    /\ call.kind = "build"
    /\ pc = "idle"
    /\ call.n = [x |-> MaxVelX, z |-> MaxVelZ, yaw |-> MaxYaw]
    /\ Len(call.rows) = MaxVelX * MaxVelZ * MaxYaw
    /\ camera_states_[0] # camera_states_[MaxYaw - 1]
    /\ camera_states_[MaxYaw * MaxVelZ * MaxVelX - 1][kNumTimestep - 1].pos # <<0, 0>>

\* ---------------------------------------------------------------- C31
\* The layer with every is_observed flag cleared.
Unflagged(layer) == [i \in Grid |-> [layer[i] EXCEPT !.is_observed = FALSE]]

\* The positions of calcInfoGainCallback's for loop over the poses.
InPoseLoop(p) == p \in {"loop", "scan", "drain"}

\* One step of calcInfoGainCallback seen from the pose loop: the loop starts
\* on a layer with no flag set, no step of the loop changes anything but
\* flags, and the gain appended for the pose at request position call.idx is
\* the gain of that pose scored alone on that layer.
GainOfPoseAlone ==
    call'.kind = "calc" =>
        /\ ~InPoseLoop(pc) /\ pc' = "loop" => tsdf' = Unflagged(tsdf')
        /\ InPoseLoop(pc) /\ InPoseLoop(pc') => Unflagged(tsdf') = Unflagged(tsdf)
        /\ pc = "scan" /\ pc' = "drain" =>
             /\ Len(call'.info_gain) = call.idx \div kStateSize + 1
             /\ scan.state = StateVecAt(call.camera_poses, call.idx)
             /\ Last(call'.info_gain) = StandAlone(Unflagged(tsdf), scan.state).gain

\* C31: the k-th info_gain of calcInfoGainCallback is the gain of the k-th
\* pose scored alone on the map the request's cloud (and diffusion) produced,
\* whatever poses were scored before it: the pose loop starts with no voxel
\* flagged, changes nothing in the map but is_observed flags, and every gain
\* it appends equals the stand-alone gain of its pose on the unflagged map.
C31_GainDependsOnMapAndPose == [][GainOfPoseAlone]_vars

\* C31 witness: calcInfoGainCallback has scored two different poses that see
\* a voxel in common, the second with a positive gain that is its stand-alone
\* gain.
C31_Witness ==
    /\ pc = "loop"
    /\ call.kind = "calc"
    /\ Len(call.log) >= 2
    /\ call.log[1].state # call.log[2].state
    /\ SeenAlone(tsdf, call.log[1].state) \cap SeenAlone(tsdf, call.log[2].state) # {}
    /\ call.info_gain[2] > 0
    /\ call.info_gain[2] = StandAlone(tsdf, call.log[2].state).gain

\* ---------------------------------------------------------------- C32
\* The existing Unknown voxels of the layer: those the pass may write and push.
Passable(layer) == {i \in Grid : layer[i].exists /\ checkUnknownStatus(layer[i])}

\* The voxels within d neighbour hops of a source, along paths that leave a
\* source and afterwards enter existing Unknown voxels only.
RECURSIVE WithinHops(_, _, _)
WithinHops(layer, sources, d) ==
    IF d = 0 THEN sources
    ELSE LET near == WithinHops(layer, sources, d - 1)
         IN  near \cup {i \in Passable(layer) :
                          \E k \in 1 .. Len(kNeighborOffsets) : Neighbors(i)[k] \in near}

\* The length of the shortest such path to voxel i, the voxel default when
\* there is none.
ShortestHops(layer, sources, i) ==
    LET ds == {d \in 0 .. Cardinality(Grid) : i \in WithinHops(layer, sources, d)}
    IN  IF ds = {} THEN kSentinelDistance
        ELSE CHOOSE d \in ds : \A o \in ds : d <= o

\* The seeds the pass started from, and the voxels it has written.
Seeds == {i \in Grid : entry[i].in_queue}
Updated == {i \in Grid : tsdf[i].interesting_distance # entry[i].interesting_distance}

\* C32: from seeds at interesting_distance 0 with in_queue set, all other
\* voxels at the voxel default with in_queue clear, after spreadInterestingness
\* every voxel the pass wrote holds the length of the shortest neighbour-hop
\* path from the nearest seed through existing Unknown voxels.
C32_ShortestHopDistance ==
    pc = "loop" =>
        \A i \in Updated : tsdf[i].interesting_distance = ShortestHops(entry, Seeds, i)

\* C32 witness: the pass is over and wrote a voxel whose shortest path goes
\* round a voxel the pass may not enter, so that it is longer than the
\* straight hop count from the seed.
C32_Witness ==
    /\ pc = "loop"
    /\ Seeds # {}
    /\ \E i \in Updated : \A s \in Seeds :
         tsdf[i].interesting_distance > Hops(i, s)

\* The pass is over and wrote voxels that are nearer to one seed than to the
\* other, one for either seed.
C32_WitnessNearestSeed ==
    /\ pc = "loop"
    /\ \E s, t \in Seeds : \E i, j \in Updated :
         /\ ShortestHops(entry, {s}, i) < ShortestHops(entry, {t}, i)
         /\ ShortestHops(entry, {t}, j) < ShortestHops(entry, {s}, j)

\* ---------------------------------------------------------------- C33
\* decay_lambda_^d * interestingness (decay_lambda_ counts halves).
Scaled(interestingness, d) == (decay_lambda_ ^ d * interestingness) \div Pow2(d)

\* Voxel i holds the seed's interestingness decayed over its distance, and
\* the seed is that many hops away.
DecayedFrom(s, i) ==
    /\ ShortestHops(entry, {s}, i) = tsdf[i].interesting_distance
    /\ tsdf[i].interestingness =
           Scaled(entry[s].interestingness, tsdf[i].interesting_distance)

\* Every voxel the pass wrote holds the decayed interestingness of a seed at
\* its distance.
SeedChain == \A i \in Updated : \E s \in Seeds : DecayedFrom(s, i)

\* A step of the pass writes an interestingness only into a voxel it has not
\* written before, and what it writes is the dequeued parent's, decayed once:
\* a later parent does not replace the value, however large its own.
FirstWriteStays ==
    \A i \in Grid :
       tsdf'[i].interestingness # tsdf[i].interestingness =>
          /\ tsdf[i].interesting_distance = kSentinelDistance
          /\ \E k \in 1 .. Len(kNeighborOffsets) :
                Neighbors(Head(interesting_voxels))[k] = i
          /\ tsdf'[i].interestingness =
                Scaled(tsdf[Head(interesting_voxels)].interestingness, 1)

\* C33: from the same pristine start, every voxel written by
\* spreadInterestingness ends with interestingness decay_lambda_^d times the
\* interestingness of a seed d hops away, d its interesting_distance; the
\* value is the one written first, by the parent dequeued first, and no later
\* parent changes it, so among equally near seeds the largest does not win.
C33_DecayedFromFirstSeed ==
    [][pc = "spread" => /\ FirstWriteStays
                        /\ pc' = "loop" => SeedChain']_vars

\* C33 witness: the pass is over; a voxel it wrote is equally near to two
\* seeds and holds the decayed interestingness of the smaller one.
C33_Witness ==
    /\ pc = "loop"
    /\ \E i \in Updated : \E s, t \in Seeds :
         /\ DecayedFrom(s, i)
         /\ ShortestHops(entry, {t}, i) = tsdf[i].interesting_distance
         /\ entry[s].interestingness < entry[t].interestingness
         /\ tsdf[i].interestingness <
               Scaled(entry[t].interestingness, tsdf[i].interesting_distance)

\* ---------------------------------------------------------------- C34
\* interesting_voxels holds no index twice, and only indices of existing
\* voxels flagged in_queue.
FrontierSound ==
    \A n \in DOMAIN interesting_voxels :
       /\ \A o \in DOMAIN interesting_voxels :
             interesting_voxels[n] = interesting_voxels[o] => n = o
       /\ HasVoxel(tsdf, interesting_voxels[n])
       /\ tsdf[interesting_voxels[n]].in_queue

\* The step is an ingestion: a pointcloud callback, or the entry of
\* calcInfoGainCallback, which integrates the request's cloud.
Ingestion ==
    /\ pc = "idle"
    /\ call'.kind # "baseline"
    /\ Len(interesting_voxels') >= Len(interesting_voxels)
    /\ SubSeq(interesting_voxels', 1, Len(interesting_voxels)) = interesting_voxels

\* What an ingestion seeds: the indices it pushes are exactly the voxels whose
\* in_queue flag it sets; each was not flagged before, exists afterwards with
\* a positive interestingness and is at interesting_distance 0.
SeedsOnlyEligible ==
    LET new == {interesting_voxels'[n] :
                   n \in Len(interesting_voxels) + 1 .. Len(interesting_voxels')}
    IN  /\ new = {i \in Grid : tsdf'[i].in_queue /\ ~tsdf[i].in_queue}
        /\ \A i \in new :
              /\ tsdf'[i].exists
              /\ tsdf'[i].interestingness > 0
              /\ tsdf'[i].interesting_distance = 0
        /\ \A i \in Grid \ new :
              tsdf[i].exists =>
                 tsdf'[i].interesting_distance = tsdf[i].interesting_distance

AboutToPop ==
    IF pc \in {"spread", "save"} /\ interesting_voxels # <<>>
    THEN {Head(interesting_voxels)}
    ELSE IF pc = "drain" /\ observed_voxels # <<>>
    THEN {Head(observed_voxels)}
    ELSE {}

\* C35: under any interleaving of interestingness ingestion, freespace
\* ingestion with distant-block removal, clear and saveViewingDistance, every
\* index popped from interesting_voxels or observed_voxels refers to a voxel
\* that still exists in the map, so that no loop dereferences an absent
\* voxel and the server never dies in one.
C35_PoppedVoxelExists ==
    /\ \A i \in AboutToPop : HasVoxel(tsdf, i)
    /\ pc # "crashed"

\* ---------------------------------------------------------------- C36
Flagged(layer, i) == layer[i].exists /\ layer[i].in_queue

\* A step leaves in_queue set on every voxel that is still there.
FlagKept ==
    \A i \in Grid : Flagged(tsdf, i) /\ tsdf'[i].exists => tsdf'[i].in_queue

\* The indices a step pushes onto interesting_voxels.
PushedByStep ==
    {i \in Grid : \/ pushed'[i] > pushed[i]
                  \/ Occurrences(interesting_voxels', i) > Occurrences(interesting_voxels, i)}

StampsOf(queue) == [k \in DOMAIN queue |-> queue[k].stamp]

\* The step is a call of the pointcloud callback that accepted its message.
Enqueued == Len(accepted') > Len(accepted)

\* One call of the callback, from the queue it finds to the queue it leaves:
\* it integrates a front part of the queue (its own message last) in queue
\* order and leaves the rest, or, when the rest holds kMaxQueueSize or more,
\* the newest kMaxQueueSize - 1 of the rest.
FifoBounded ==
    LET queue == IF Enqueued
                 THEN StampsOf(pointcloud_queue_) \o <<Last(accepted')>>
                 ELSE StampsOf(pointcloud_queue_)
        n     == Len(processed') - Len(processed)
        rest  == SubSeq(queue, n + 1, Len(queue))
        left  == StampsOf(pointcloud_queue_')
    IN  /\ n >= 0
        /\ n <= Len(queue)
        /\ processed' = processed \o SubSeq(queue, 1, n)
        /\ Increasing(processed')
        /\ IsSuffix(left, rest)
        /\ IF Len(rest) >= kMaxQueueSize
           THEN Len(left) = kMaxQueueSize - 1
           ELSE left = rest
        /\ Len(pointcloud_queue_') <= kMaxQueueSize - 1

\* C37: the pending queue is FIFO and bounded: messages are integrated in
\* arrival order, each at most once; when the front message has no transform
\* and the queue holds kMaxQueueSize (10) or more, the oldest are dropped
\* until kMaxQueueSize - 1 remain; whenever the callback returns the queue
\* holds at most 9 messages.
C37_QueueFifoBounded == [][FifoBounded]_vars

\* C37 witness: the callback has returned with nine messages waiting, after
\* integrating some messages and dropping others that never had a transform.
C37_Witness ==
    /\ Len(pointcloud_queue_) = kMaxQueueSize - 1
    /\ processed # <<>>
    /\ \E n \in DOMAIN accepted :
         /\ accepted[n] > Last(processed)
         /\ \A k \in DOMAIN processed : processed[k] # accepted[n]
         /\ \A k \in DOMAIN pointcloud_queue_ : pointcloud_queue_[k].stamp # accepted[n]

====
